---- MODULE Spec2Model ----
(***************************************************************************)
(* Service registry of the config-service: the Durable Store (table        *)
(* service_registry), the Cache Layer (Redis keys service_info:<name>,     *)
(* service:<name>:instances, service:<name>:active, healthy_services) and  *)
(* the ServiceRegistryService operations that keep them in step.           *)
(*                                                                         *)
(* Every request runs ServiceRegistryService on its own database session.  *)
(* A repository method is one transaction and is one step here; every      *)
(* awaited Redis or Kafka call of the service is one step of its own, so   *)
(* requests interleave at the awaits exactly as coroutines do.             *)
(*                                                                         *)
(* Columns no modelled operation reads back (id, health_check_url,         *)
(* registered_at, updated_at) are left out of the record and of its        *)
(* projections.  Optional values are <<>> (None) or <<v>>.                 *)
(***************************************************************************)
EXTENDS Integers, Sequences, FiniteSets, TLC

\* ------------------------------------------------------------ bounds
\* Largest value of the wall clock read by datetime.utcnow().
MaxClock == 1

\* ------------------------------------------------------------ inputs
\* Service names as character sequences, so that one is a prefix of the other.
Names == { <<"a">>, <<"a", "b">> }
Urls == { "http://u1", "http://u2" }
SUPPORTED_STATUSES == { "healthy", "unhealthy", "unknown" }
\* Request metadata: absent, or one dict.
MetaInputs == { <<>>, << [region |-> "eu"] >> }
\* response_time of a health update: absent, or a float.
RtInputs == { <<>>, <<7>> }
Procs == { "p1", "p2" }
\* The monitor loop tasks asyncio.create_task can hand out in one run.
Tasks == { "t1", "t2" }
\* The callers of start_monitoring and stop_monitoring.
Ctls == { "c1", "c2" }
\* Everything that runs ServiceRegistryService code: requests and monitor tasks.
Agents == Procs \cup Tasks

None == <<>>
Some(x) == <<x>>
IsNone(o) == o = <<>>
Val(o) == o[1]

IsPrefix(s, t) == Len(s) <= Len(t) /\ SubSeq(t, 1, Len(s)) = s

VARIABLES
  store,      \* Durable Store: service_name -> row, for the rows that exist
  info,       \* Redis service_info:<name> -> service_dict
  inst,       \* Redis service:<name>:instances -> instance_data
  active,     \* Redis service:<name>:active -> "1" | "0"
  healthy,    \* Redis healthy_services: {} when absent, else {cached list}
  due,        \* where time is kept: the time the TTL of service:<name>:instances
              \* and of service:<name>:active runs out
  now,        \* wall clock
  env,        \* what the environment may do in this run (fixed by Init)
  pc,         \* per request: the await it is suspended at
  call,       \* per request: operation and arguments
  loc,        \* per request: local variables (service, keys, services)
  ret,        \* per request: the result handed to the caller
  obs,        \* per request: what the call did to cache, bus and store so far
  last,       \* the last call that returned, with its arguments and result
  is_running,   \* HealthMonitorService.is_running
  monitor_task, \* HealthMonitorService.monitor_task: None or the task created last
  task,       \* per monitor task: where monitor_loop is, and its cycle's locals
  ctl,        \* per caller of start_monitoring/stop_monitoring: where it is
  world,      \* the probed endpoints: the answer each gives now, the answers they
              \* can give, whether they have settled, and whether time is kept
  fstore,     \* Durable Store, table feature_flags: name -> row (name is unique)
  fcache      \* Redis feature_flag:<name>:<environment> -> flag_dict

monVars == << is_running, monitor_task, task, ctl, world >>
flagVars == << fstore, fcache >>
vars == << store, info, inst, active, healthy, due, now, env, pc, call, loc, ret, obs, last,
           is_running, monitor_task, task, ctl, world, fstore, fcache >>
cacheVars == << info, inst, active, healthy, due >>

\* ------------------------------------------------------------ records
\* The dict every path builds from a row (service_dict).
ServiceDict(name, row) ==
  [ service_name |-> name,
    service_url |-> row.service_url,
    status |-> row.status,
    last_health_check |-> row.last_health_check,
    metadata |-> row.metadata ]

\* dict.get("avg_response_time", 0) on optional metadata.
AvgResponseTime(meta) ==
  IF IsNone(meta) THEN 0
  ELSE IF "avg_response_time" \in DOMAIN Val(meta) THEN Val(meta).avg_response_time
  ELSE 0

\* instance_data written by register_service.
RegisterInstanceData(name, url, row) ==
  [ instance_id |-> name,
    url |-> url,
    health_status |-> row.status,
    avg_response_time |-> IF IsNone(row.metadata) \/ DOMAIN Val(row.metadata) = {}
                          THEN 0 ELSE AvgResponseTime(row.metadata),
    consecutive_failures |-> 0 ]

\* instance_data written by update_health: response_time or 0.
HealthInstanceData(name, row, status, rt) ==
  [ instance_id |-> name,
    url |-> row.service_url,
    health_status |-> status,
    avg_response_time |-> IF IsNone(rt) THEN 0 ELSE Val(rt),
    consecutive_failures |-> 0 ]

\* The active flag written by register_service: always "1".
RegisterActiveFlag(row) == "1"

\* The active flag written by update_health.
HealthActiveFlag(status) == IF status = "healthy" THEN "1" ELSE "0"

\* ------------------------------------------------------------ repository
\* A function with key k added or overwritten.
Put(f, k, v) == [ x \in DOMAIN f \cup {k} |-> IF x = k THEN v ELSE f[x] ]
\* A function with the keys of ks removed.
Drop(f, ks) == [ x \in DOMAIN f \ ks |-> f[x] ]

\* RegisterRow, but an upsert that stamps the row with the time of the call.
RegisterRowTouches(st, name, url, meta) ==
  [ service_url |-> url,
    status |-> IF name \in DOMAIN st THEN st[name].status ELSE "unknown",
    last_health_check |-> IF name \in DOMAIN st THEN Some(now) ELSE None,
    metadata |-> IF name \in DOMAIN st /\ IsNone(meta) THEN st[name].metadata ELSE meta ]

\* RegisterRow, but an upsert that writes the insert's status over the row.
RegisterRowResetsStatus(st, name, url, meta) ==
  [ service_url |-> url,
    status |-> "unknown",
    last_health_check |-> IF name \in DOMAIN st THEN st[name].last_health_check ELSE None,
    metadata |-> IF name \in DOMAIN st /\ IsNone(meta) THEN st[name].metadata ELSE meta ]

\* ServiceRegistryRepository.register: the row after the upsert.
RegisterRow(st, name, url, meta) ==
  IF name \in DOMAIN st
  THEN [ st[name] EXCEPT !.service_url = url,
                         !.metadata = IF IsNone(meta) THEN @ ELSE meta ]
  ELSE [ service_url |-> url,
         status |-> "unknown",
         last_health_check |-> None,
         metadata |-> meta ]

\* ServiceRegistryRepository.update_health: the row after the update.  The
\* metadata column is plain JSONB: a dict assigned to the attribute is written
\* by the commit, a key set inside the dict already loaded is not, and the
\* refresh after the commit reads the column back.
UpdateHealthRow(row, status, rt, t) ==
  [ row EXCEPT !.status = status,
               !.last_health_check = Some(t),
               !.metadata = IF IsNone(rt) THEN @
                            ELSE IF IsNone(@)
                                 THEN Some([avg_response_time |-> Val(rt)])
                                 ELSE @ ]

\* ServiceRegistryRepository.get_healthy_services: the rows with status healthy.
HealthyRows(st) ==
  [ n \in { m \in DOMAIN st : st[m].status = "healthy" } |-> ServiceDict(n, st[n]) ]

\* ScanKeys, but matching the pattern of another key family.
ScanKeysWrongPattern(cached, name) == {}

\* CacheService.delete_pattern("service_info:<name>*"): the keys the scan finds.
ScanKeys(cached, name) == { k \in DOMAIN cached : IsPrefix(name, k) }

\* ------------------------------------------------------------ environment
\* A Redis command succeeds, or fails when the environment has cache faults.
CacheOutcomes == IF env.cacheFaults THEN BOOLEAN ELSE { TRUE }
\* A transaction commits, or fails when the environment has storage faults.
StoreOutcomes == IF env.storeFaults THEN BOOLEAN ELSE { TRUE }
\* producer.send succeeds or raises.
BusOutcomes == IF env.busFaults THEN BOOLEAN ELSE { TRUE }

\* SERVICE_REGISTRY_TTL, in ticks of the clock: longer than the monitor's interval.
ServiceRegistryTtl == 3
\* No setex has been made.
NoDue == [ inst |-> [ n \in Names |-> 0 ], active |-> [ n \in Names |-> 0 ] ]
\* setex(key, SERVICE_REGISTRY_TTL, ...) now: the key of `family` of `name` lives
\* until now + SERVICE_REGISTRY_TTL.
Setex(d, family, name, timed) ==
  IF timed THEN [ d EXCEPT ![family][name] = now + ServiceRegistryTtl ] ELSE d

\* The requests that have started and not yet handed their result back.
Running == { p \in Procs : pc[p] \notin { "idle", "done" } }
Mutating == { "register", "update_health", "deregister" }

NoCall == [ op |-> "none", name |-> <<>>, url |-> "", meta |-> None,
            status |-> "", rt |-> None, method |-> "", route |-> << >> ]
NoLoc == [ service |-> None, keys |-> {} ]
NoRet == [ kind |-> "pending", val |-> None ]
\* What is recorded about a call: pre and wasCached are the row and the
\* service_info entry of its name as it started; fresh says that it started with
\* no mutating call running and that none has started since; quiet says of a
\* get that it started after every call before it had returned.
NoObs == [ touched |-> FALSE, published |-> FALSE, storeError |-> FALSE,
           cacheError |-> FALSE, committed |-> FALSE, fresh |-> FALSE,
           quiet |-> FALSE, pre |-> None, wasCached |-> FALSE ]

\* A task slot asyncio has not handed out yet.
\* failed: the cycle under way, or the one before the sleep, logged an error;
\* lost: the last update_health of the task raised.
\* wake: the time the sleep under way ends; started, prev: the times the cycle
\* under way (or the last one) and the one before it began.  The three are kept
\* only where time is kept.
NoTask == [ at |-> "none", cancelled |-> FALSE, services |-> << >>,
            results |-> << >>, failed |-> FALSE, lost |-> FALSE,
            wake |-> 0, started |-> None, prev |-> None ]
NoCtl == [ pc |-> "idle", task |-> None ]

\* ---- what a health endpoint can answer to the probe's GET
\* A JSON value of a body: a string, a number, or an object with its status.
JStr(v) == [ type |-> "str", s |-> v, status |-> None ]
JNum == [ type |-> "num", s |-> "", status |-> None ]
JObj(status) == [ type |-> "obj", s |-> "", status |-> status ]
StatusStrings == { "healthy", "HEALTHY", "unhealthy", "error", "down", "degraded" }
\* The status member of an object: absent, a string or a number.
StatusValues == { None, Some(JNum) } \cup { Some(JStr(v)) : v \in StatusStrings }
\* The detail member: absent, a string, or an object.
DetailValues == { None, Some(JStr("Service Unavailable")) }
                \cup { Some(JObj(st)) : st \in StatusValues }
\* A body: not JSON, JSON that is no object, or an object.
Bodies ==
  { [ json |-> j, status |-> None, detail |-> None ] : j \in { "invalid", "array" } }
  \cup { [ json |-> "object", status |-> st, detail |-> d ] :
           st \in StatusValues, d \in DetailValues }
HttpCodes == { 200, 503 }
NoBody == [ json |-> "none", status |-> None, detail |-> None ]
Received(code, body) == [ kind |-> "response", code |-> code, body |-> body ]
Failure(kind) == [ kind |-> kind, code |-> 0, body |-> NoBody ]
\* What http_client.get gives: a response, or one of its exceptions.
Answers ==
  { Received(code, body) : code \in HttpCodes, body \in Bodies }
  \cup { Failure(k) : k \in { "ConnectError", "TimeoutException", "Exception" } }
\* {"status": "healthy"} with 200, and a refused connection.
AnswerHealthy ==
  Received(200, [ json |-> "object", status |-> Some(JStr("healthy")), detail |-> None ])
AnswerRefused == Failure("ConnectError")
\* The endpoints of the services: each answers healthy, and can come to give any
\* of `answers`.
World(answers, timed) ==
  [ answer |-> [ n \in Names |-> AnswerHealthy ], answers |-> answers,
    stable |-> FALSE, timed |-> timed ]

\* No request, no monitor task and no caller of the monitor is under way.
InitIdleIn(e, w) ==
  /\ now = 0
  /\ env = e
  /\ pc = [ p \in Agents |-> "idle" ]
  /\ call = [ p \in Agents |-> NoCall ]
  /\ loc = [ p \in Agents |-> NoLoc ]
  /\ ret = [ p \in Agents |-> NoRet ]
  /\ obs = [ p \in Agents |-> NoObs ]
  /\ last = [ call |-> NoCall, ret |-> NoRet ]
  /\ is_running = FALSE
  /\ monitor_task = None
  /\ task = [ t \in Tasks |-> NoTask ]
  /\ ctl = [ c \in Ctls |-> NoCtl ]
  /\ world = w
  /\ fstore = << >>
  /\ fcache = << >>
InitIdle(e) == InitIdleIn(e, World({ AnswerHealthy, AnswerRefused }, FALSE))

\* The service starts on an empty registry and an empty Redis.
InitWith(e) ==
  /\ store = << >>
  /\ info = << >>
  /\ inst = << >>
  /\ active = << >>
  /\ healthy = {}
  /\ due = NoDue
  /\ InitIdle(e)

\* The registry as register_service(name, url) of every name of `names`, one
\* after the other on an empty registry, leaves it.
InitMonitored(e, w, names, url) ==
  LET row == RegisterRow(<< >>, CHOOSE n \in names : TRUE, url, None) IN
  /\ store = [ n \in names |-> row ]
  /\ info = [ n \in names |-> ServiceDict(n, row) ]
  /\ inst = [ n \in names |-> RegisterInstanceData(n, url, row) ]
  /\ active = [ n \in names |-> RegisterActiveFlag(row) ]
  /\ healthy = {}
  /\ due = [ f \in { "inst", "active" } |->
             [ n \in Names |-> IF n \in names /\ w.timed THEN ServiceRegistryTtl ELSE 0 ] ]
  /\ InitIdleIn(e, w)
InitRegistered(e, name, url) ==
  InitMonitored(e, World({ AnswerHealthy, AnswerRefused }, FALSE), { name }, url)

\* ------------------------------------------------------------ steps
\* The request moves to pc value `to`.
Goto(p, to) == pc' = [ pc EXCEPT ![p] = to ]
\* The request hands `kind`/`val` to its caller.
Finish(p, kind, val) ==
  /\ pc' = [ pc EXCEPT ![p] = "done" ]
  /\ ret' = [ ret EXCEPT ![p] = [ kind |-> kind, val |-> val ] ]
\* except Exception: log and raise.
Raise(p, what) == Finish(p, "error", Some(what))
Note(p, field, v) == obs' = [ obs EXCEPT ![p][field] = v ]

\* The calls a caller can make on the names `ns`, with arguments drawn from
\* `us`, `ms`, `ss` and `rs`.
RequestsOver(ns, us, ms, ss, rs) ==
  { [ NoCall EXCEPT !.op = "register", !.name = n, !.url = u, !.meta = m ] :
      n \in ns, u \in us, m \in ms }
  \cup { [ NoCall EXCEPT !.op = "update_health", !.name = n, !.status = s, !.rt = r ] :
      n \in ns, s \in ss, r \in rs }
  \cup { [ NoCall EXCEPT !.op = o, !.name = n ] : o \in { "get", "deregister" }, n \in ns }
  \cup { [ NoCall EXCEPT !.op = "healthy" ] }

\* The first await of each operation.
FirstStep(op) ==
  CASE op = "register" -> "reg_repo"
    [] op = "get" -> "get_cache"
    [] op = "healthy" -> "hl_cache"
    [] op = "update_health" -> "uh_repo"
    [] op = "deregister" -> "dr_repo"

\* A caller starts one operation.  A read is fresh when no mutating call is
\* running as it starts; a mutating call that starts ends the freshness of
\* every other request.
Call(p) ==
  /\ p \in env.procs
  /\ pc[p] = "idle"
  /\ \E c \in env.requests :
       /\ call' = [ call EXCEPT ![p] = c ]
       /\ Goto(p, FirstStep(c.op))
       /\ obs' = [ q \in Agents |->
            IF q = p
            THEN [ NoObs EXCEPT
                     !.fresh = \A r \in Running : call[r].op \notin Mutating,
                     !.quiet = c.op = "get" /\ Running = {},
                     !.pre = IF c.name \in DOMAIN store THEN Some(store[c.name]) ELSE None,
                     !.wasCached = c.name \in DOMAIN info ]
            ELSE IF c.op \in Mutating THEN [ obs[q] EXCEPT !.fresh = FALSE ]
            ELSE obs[q] ]
  /\ loc' = [ loc EXCEPT ![p] = NoLoc ]
  /\ ret' = [ ret EXCEPT ![p] = NoRet ]
  /\ UNCHANGED << store, cacheVars, now, env, last, monVars, flagVars >>

\* What every step leaves alone besides what it names.
Frame(p) == UNCHANGED << now, env, call, last, monVars, flagVars >>

\* ---- register_service
\* await self.repository.register(...): commit and refresh, or rollback and
\* DatabaseError.
reg_repo(p) ==
  /\ pc[p] = "reg_repo"
  /\ \E ok \in StoreOutcomes :
       IF ok
       THEN LET row == RegisterRow(store, call[p].name, call[p].url, call[p].meta) IN
            /\ store' = Put(store, call[p].name, row)
            /\ loc' = [ loc EXCEPT ![p].service = Some(row) ]
            /\ Note(p, "committed", TRUE)
            /\ Goto(p, "reg_instances")
            /\ UNCHANGED ret
       ELSE /\ Note(p, "storeError", TRUE)
            /\ Raise(p, "DatabaseError")
            /\ UNCHANGED << store, loc >>
  /\ UNCHANGED cacheVars
  /\ Frame(p)

\* await self.redis_client.setex("service:<name>:instances", ...): not guarded.
reg_instances(p) ==
  /\ pc[p] = "reg_instances"
  /\ \E ok \in CacheOutcomes :
       IF ok
       THEN /\ inst' = Put(inst, call[p].name,
                 RegisterInstanceData(call[p].name, call[p].url, Val(loc[p].service)))
            /\ due' = Setex(due, "inst", call[p].name, world.timed)
            /\ Note(p, "touched", TRUE)
            /\ Goto(p, "reg_active")
            /\ UNCHANGED ret
       ELSE /\ Note(p, "cacheError", TRUE)
            /\ Raise(p, "RedisError")
            /\ UNCHANGED << inst, due >>
  /\ UNCHANGED << store, info, active, healthy, loc >>
  /\ Frame(p)

\* await self.redis_client.setex("service:<name>:active", ..., "1"): not guarded.
reg_active(p) ==
  /\ pc[p] = "reg_active"
  /\ \E ok \in CacheOutcomes :
       IF ok
       THEN /\ active' = Put(active, call[p].name, RegisterActiveFlag(Val(loc[p].service)))
            /\ due' = Setex(due, "active", call[p].name, world.timed)
            /\ Note(p, "touched", TRUE)
            /\ Goto(p, "reg_info")
            /\ UNCHANGED ret
       ELSE /\ Note(p, "cacheError", TRUE)
            /\ Raise(p, "RedisError")
            /\ UNCHANGED << active, due >>
  /\ UNCHANGED << store, info, inst, healthy, loc >>
  /\ Frame(p)

\* await self.cache_service.set("service_info:<name>", service_dict): a failure
\* is logged and swallowed by CacheService.set.
reg_info(p) ==
  /\ pc[p] = "reg_info"
  /\ \E ok \in CacheOutcomes :
       IF ok
       THEN /\ info' = Put(info, call[p].name,
                 ServiceDict(call[p].name, Val(loc[p].service)))
            /\ Note(p, "touched", TRUE)
       ELSE /\ Note(p, "cacheError", TRUE)
            /\ UNCHANGED info
  /\ Goto(p, "reg_publish")
  /\ UNCHANGED << store, due, inst, active, healthy, loc, ret >>
  /\ Frame(p)

\* NotificationService.publish_service_registry_update: skipped without a
\* producer, a failing send is logged and swallowed.
Publish(p) ==
  IF env.producer
  THEN \E ok \in BusOutcomes : Note(p, "published", ok)
  ELSE UNCHANGED obs

\* reg_publish, but a send that fails is raised to the caller of register.
reg_publish_raises(p) ==
  /\ pc[p] = "reg_publish"
  /\ Publish(p)
  /\ IF env.producer /\ ~obs'[p].published
     THEN Raise(p, "KafkaError")
     ELSE Finish(p, "row", loc[p].service)
  /\ UNCHANGED << store, cacheVars, loc >>
  /\ Frame(p)

\* publish "register", then return service.
reg_publish(p) ==
  /\ pc[p] = "reg_publish"
  /\ Publish(p)
  /\ Finish(p, "row", loc[p].service)
  /\ UNCHANGED << store, cacheVars, loc >>
  /\ Frame(p)

\* ---- get_service
\* cached = await self.cache_service.get("service_info:<name>"); a failure reads
\* as a miss; a hit is returned as it is.
get_cache(p) ==
  /\ pc[p] = "get_cache"
  /\ \E ok \in CacheOutcomes :
       IF ok /\ call[p].name \in DOMAIN info
       THEN /\ Finish(p, "dict", Some(info[call[p].name]))
            /\ UNCHANGED obs
       ELSE /\ Goto(p, "get_repo")
            /\ obs' = [ obs EXCEPT ![p].cacheError = ~ok ]
            /\ UNCHANGED ret
  /\ UNCHANGED << store, cacheVars, loc >>
  /\ Frame(p)

\* service = await self.repository.get_by_name(name); None is returned as None.
get_repo(p) ==
  /\ pc[p] = "get_repo"
  /\ \E ok \in StoreOutcomes :
       IF ~ok
       THEN /\ Note(p, "storeError", TRUE)
            /\ Raise(p, "DatabaseError")
            /\ UNCHANGED loc
       ELSE IF call[p].name \in DOMAIN store
       THEN /\ loc' = [ loc EXCEPT ![p].service = Some(store[call[p].name]) ]
            /\ Goto(p, "get_set")
            /\ UNCHANGED << ret, obs >>
       ELSE /\ Finish(p, "none", None)
            /\ UNCHANGED << loc, obs >>
  /\ UNCHANGED << store, cacheVars >>
  /\ Frame(p)

\* await self.cache_service.set("service_info:<name>", service_dict); return it.
get_set(p) ==
  /\ pc[p] = "get_set"
  /\ LET d == ServiceDict(call[p].name, Val(loc[p].service)) IN
     /\ \E ok \in CacheOutcomes :
          IF ok
          THEN /\ info' = Put(info, call[p].name, d)
               /\ Note(p, "touched", TRUE)
          ELSE /\ Note(p, "cacheError", TRUE)
               /\ UNCHANGED info
     /\ Finish(p, "dict", Some(d))
  /\ UNCHANGED << store, due, inst, active, healthy, loc >>
  /\ Frame(p)

\* ---- get_healthy_services
\* cached = await self.cache_service.get("healthy_services"); `if cached:` takes
\* an empty list for a miss.
hl_cache(p) ==
  /\ pc[p] = "hl_cache"
  /\ \E ok \in CacheOutcomes :
       IF ok /\ \E l \in healthy : DOMAIN l # {}
       THEN /\ Finish(p, "list", Some(CHOOSE l \in healthy : TRUE))
            /\ UNCHANGED obs
       ELSE /\ Goto(p, "hl_repo")
            /\ obs' = [ obs EXCEPT ![p].cacheError = ~ok ]
            /\ UNCHANGED ret
  /\ UNCHANGED << store, cacheVars, loc >>
  /\ Frame(p)

\* services = await self.repository.get_healthy_services()
hl_repo(p) ==
  /\ pc[p] = "hl_repo"
  /\ \E ok \in StoreOutcomes :
       IF ok
       THEN /\ loc' = [ loc EXCEPT ![p].service = Some(HealthyRows(store)) ]
            /\ Goto(p, "hl_set")
            /\ UNCHANGED << ret, obs >>
       ELSE /\ Note(p, "storeError", TRUE)
            /\ Raise(p, "DatabaseError")
            /\ UNCHANGED loc
  /\ UNCHANGED << store, cacheVars >>
  /\ Frame(p)

\* await self.cache_service.set("healthy_services", service_dicts, ttl=30)
hl_set(p) ==
  /\ pc[p] = "hl_set"
  /\ \E ok \in CacheOutcomes :
       IF ok
       THEN /\ healthy' = { Val(loc[p].service) }
            /\ Note(p, "touched", TRUE)
       ELSE /\ Note(p, "cacheError", TRUE)
            /\ UNCHANGED healthy
  /\ Finish(p, "list", loc[p].service)
  /\ UNCHANGED << store, due, info, inst, active, loc >>
  /\ Frame(p)

\* uh_repo, but a failed commit is reported without a rollback: the new status
\* stays written.
uh_repo_no_rollback(p) ==
  /\ pc[p] = "uh_repo"
  /\ \E ok \in StoreOutcomes :
       IF call[p].name \in DOMAIN store
       THEN LET row == UpdateHealthRow(store[call[p].name], call[p].status,
                                       call[p].rt, now) IN
            /\ store' = Put(store, call[p].name, row)
            /\ IF ok
               THEN /\ loc' = [ loc EXCEPT ![p].service = Some(row) ]
                    /\ Note(p, "committed", TRUE)
                    /\ Goto(p, "uh_instances")
                    /\ UNCHANGED ret
               ELSE /\ Note(p, "storeError", TRUE)
                    /\ Raise(p, "DatabaseError")
                    /\ UNCHANGED loc
       ELSE /\ Finish(p, "none", None)
            /\ UNCHANGED << store, loc, obs >>
  /\ UNCHANGED cacheVars
  /\ Frame(p)

\* uh_repo, but a transaction that failed is swallowed and the call goes on
\* with the row it meant to write.
uh_repo_swallows(p) ==
  /\ pc[p] = "uh_repo"
  /\ \E ok \in StoreOutcomes :
       IF call[p].name \in DOMAIN store
       THEN LET row == UpdateHealthRow(store[call[p].name], call[p].status,
                                       call[p].rt, now) IN
            /\ store' = IF ok THEN Put(store, call[p].name, row) ELSE store
            /\ loc' = [ loc EXCEPT ![p].service = Some(row) ]
            /\ IF ok THEN Note(p, "committed", TRUE) ELSE Note(p, "storeError", TRUE)
            /\ Goto(p, "uh_instances")
            /\ UNCHANGED ret
       ELSE /\ Finish(p, "none", None)
            /\ UNCHANGED << store, loc, obs >>
  /\ UNCHANGED cacheVars
  /\ Frame(p)

\* ---- update_health
\* service = await self.repository.update_health(name, status, response_time);
\* None (no such row) is returned as None.
uh_repo(p) ==
  /\ pc[p] = "uh_repo"
  /\ \E ok \in StoreOutcomes :
       IF ~ok
       THEN /\ Note(p, "storeError", TRUE)
            /\ Raise(p, "DatabaseError")
            /\ UNCHANGED << store, loc >>
       ELSE IF call[p].name \in DOMAIN store
       THEN LET row == UpdateHealthRow(store[call[p].name], call[p].status,
                                       call[p].rt, now) IN
            /\ store' = Put(store, call[p].name, row)
            /\ loc' = [ loc EXCEPT ![p].service = Some(row) ]
            /\ Note(p, "committed", TRUE)
            /\ Goto(p, "uh_instances")
            /\ UNCHANGED ret
       ELSE /\ Finish(p, "none", None)
            /\ UNCHANGED << store, loc, obs >>
  /\ UNCHANGED cacheVars
  /\ Frame(p)

\* await self.redis_client.setex("service:<name>:instances", ...): not guarded.
uh_instances(p) ==
  /\ pc[p] = "uh_instances"
  /\ \E ok \in CacheOutcomes :
       IF ok
       THEN /\ inst' = Put(inst, call[p].name,
                 HealthInstanceData(call[p].name, Val(loc[p].service),
                                    call[p].status, call[p].rt))
            /\ due' = Setex(due, "inst", call[p].name, world.timed)
            /\ Note(p, "touched", TRUE)
            /\ Goto(p, "uh_active")
            /\ UNCHANGED ret
       ELSE /\ Note(p, "cacheError", TRUE)
            /\ Raise(p, "RedisError")
            /\ UNCHANGED << inst, due >>
  /\ UNCHANGED << store, info, active, healthy, loc >>
  /\ Frame(p)

\* await self.redis_client.setex("service:<name>:active", ...): not guarded.
uh_active(p) ==
  /\ pc[p] = "uh_active"
  /\ \E ok \in CacheOutcomes :
       IF ok
       THEN /\ active' = Put(active, call[p].name, HealthActiveFlag(call[p].status))
            /\ due' = Setex(due, "active", call[p].name, world.timed)
            /\ Note(p, "touched", TRUE)
            /\ Goto(p, "uh_scan")
            /\ UNCHANGED ret
       ELSE /\ Note(p, "cacheError", TRUE)
            /\ Raise(p, "RedisError")
            /\ UNCHANGED << active, due >>
  /\ UNCHANGED << store, info, inst, healthy, loc >>
  /\ Frame(p)

\* CacheService.delete_pattern, first half: scan_iter(match="service_info:<name>*")
\* collects the keys; with none found, or on a failure, nothing is deleted.
Scan(p, delete, after) ==
  /\ \E ok \in CacheOutcomes :
       LET keys == IF ok THEN ScanKeys(info, call[p].name) ELSE {} IN
       /\ loc' = [ loc EXCEPT ![p].keys = keys ]
       /\ Goto(p, IF keys = {} THEN after ELSE delete)
       /\ obs' = [ obs EXCEPT ![p].cacheError = @ \/ ~ok ]
  /\ UNCHANGED << store, cacheVars, ret >>
  /\ Frame(p)

\* DeleteKeys, but the keys found are not deleted.
DeleteKeysSkipped(p, after) ==
  /\ Goto(p, after)
  /\ UNCHANGED << store, cacheVars, loc, ret, obs >>
  /\ Frame(p)

\* CacheService.delete_pattern, second half: redis.delete(*keys); a failure is
\* logged and swallowed.
DeleteKeys(p, after) ==
  /\ \E ok \in CacheOutcomes :
       IF ok
       THEN /\ info' = Drop(info, loc[p].keys)
            /\ Note(p, "touched", TRUE)
       ELSE /\ Note(p, "cacheError", TRUE)
            /\ UNCHANGED info
  /\ Goto(p, after)
  /\ UNCHANGED << store, due, inst, active, healthy, loc, ret >>
  /\ Frame(p)

\* DeleteHealthy, but healthy_services is left in place.
DeleteHealthySkipped(p, after) ==
  /\ Goto(p, after)
  /\ UNCHANGED << store, cacheVars, loc, ret, obs >>
  /\ Frame(p)

\* await self.cache_service.delete("healthy_services"); a failure is swallowed.
DeleteHealthy(p, after) ==
  /\ \E ok \in CacheOutcomes :
       IF ok
       THEN /\ healthy' = {}
            /\ Note(p, "touched", TRUE)
       ELSE /\ Note(p, "cacheError", TRUE)
            /\ UNCHANGED healthy
  /\ Goto(p, after)
  /\ UNCHANGED << store, due, info, inst, active, loc, ret >>
  /\ Frame(p)

uh_scan(p) == pc[p] = "uh_scan" /\ Scan(p, "uh_delete", "uh_healthy")
uh_delete(p) == pc[p] = "uh_delete" /\ DeleteKeys(p, "uh_healthy")
uh_healthy(p) == pc[p] = "uh_healthy" /\ DeleteHealthy(p, "uh_publish")

\* publish "health_update", then return service_dict.
uh_publish(p) ==
  /\ pc[p] = "uh_publish"
  /\ Publish(p)
  /\ Finish(p, "dict", Some(ServiceDict(call[p].name, Val(loc[p].service))))
  /\ UNCHANGED << store, cacheVars, loc >>
  /\ Frame(p)

\* dr_repo, but cleaning up and reporting success whatever the repository says:
\* no row found, or a DatabaseError swallowed.
dr_repo_unchecked(p) ==
  /\ pc[p] = "dr_repo"
  /\ \E ok \in StoreOutcomes :
       IF ~ok
       THEN /\ Note(p, "storeError", TRUE)
            /\ UNCHANGED store
       ELSE IF call[p].name \in DOMAIN store
       THEN /\ store' = Drop(store, { call[p].name })
            /\ Note(p, "committed", TRUE)
       ELSE UNCHANGED << store, obs >>
  /\ Goto(p, "dr_scan")
  /\ UNCHANGED << cacheVars, loc, ret >>
  /\ Frame(p)

\* ---- deregister_service
\* success = await self.repository.deregister(name); False is returned as False.
dr_repo(p) ==
  /\ pc[p] = "dr_repo"
  /\ \E ok \in StoreOutcomes :
       IF ~ok
       THEN /\ Note(p, "storeError", TRUE)
            /\ Raise(p, "DatabaseError")
            /\ UNCHANGED store
       ELSE IF call[p].name \in DOMAIN store
       THEN /\ store' = Drop(store, { call[p].name })
            /\ Note(p, "committed", TRUE)
            /\ Goto(p, "dr_scan")
            /\ UNCHANGED ret
       ELSE /\ Finish(p, "bool", Some(FALSE))
            /\ UNCHANGED << store, obs >>
  /\ UNCHANGED << cacheVars, loc >>
  /\ Frame(p)

dr_scan(p) == pc[p] = "dr_scan" /\ Scan(p, "dr_delete", "dr_healthy")
dr_delete(p) == pc[p] = "dr_delete" /\ DeleteKeys(p, "dr_healthy")
dr_healthy(p) == pc[p] = "dr_healthy" /\ DeleteHealthy(p, "dr_instances")

\* await self.redis_client.delete("service:<name>:instances"): not guarded.
dr_instances(p) ==
  /\ pc[p] = "dr_instances"
  /\ \E ok \in CacheOutcomes :
       IF ok
       THEN /\ inst' = Drop(inst, { call[p].name })
            /\ Note(p, "touched", TRUE)
            /\ Goto(p, "dr_active")
            /\ UNCHANGED ret
       ELSE /\ Note(p, "cacheError", TRUE)
            /\ Raise(p, "RedisError")
            /\ UNCHANGED inst
  /\ UNCHANGED << store, due, info, active, healthy, loc >>
  /\ Frame(p)

\* await self.redis_client.delete("service:<name>:active"): not guarded.
dr_active(p) ==
  /\ pc[p] = "dr_active"
  /\ \E ok \in CacheOutcomes :
       IF ok
       THEN /\ active' = Drop(active, { call[p].name })
            /\ Note(p, "touched", TRUE)
            /\ Goto(p, "dr_publish")
            /\ UNCHANGED ret
       ELSE /\ Note(p, "cacheError", TRUE)
            /\ Raise(p, "RedisError")
            /\ UNCHANGED active
  /\ UNCHANGED << store, due, info, inst, healthy, loc >>
  /\ Frame(p)

\* publish "deregister", then return success.
dr_publish(p) ==
  /\ pc[p] = "dr_publish"
  /\ Publish(p)
  /\ Finish(p, "bool", Some(TRUE))
  /\ UNCHANGED << store, cacheVars, loc >>
  /\ Frame(p)

\* The caller takes the result; the request slot is free again.
Return(p) ==
  /\ pc[p] = "done"
  /\ last' = IF env.history THEN [ call |-> call[p], ret |-> ret[p] ] ELSE last
  /\ pc' = [ pc EXCEPT ![p] = "idle" ]
  /\ call' = [ call EXCEPT ![p] = NoCall ]
  /\ loc' = [ loc EXCEPT ![p] = NoLoc ]
  /\ ret' = [ ret EXCEPT ![p] = NoRet ]
  /\ obs' = [ obs EXCEPT ![p] = NoObs ]
  /\ UNCHANGED << store, cacheVars, now, env, monVars, flagVars >>

\* ---- environment
\* A Redis key reaches its TTL (SERVICE_REGISTRY_TTL, or 30 s for
\* healthy_services) and is gone.
ExpireInfo ==
  /\ \E n \in DOMAIN info : info' = Drop(info, {n})
  /\ UNCHANGED << store, due, inst, active, healthy, now, env, pc, call, loc, ret, obs, last, monVars, flagVars >>

ExpireInstances ==
  /\ \E n \in DOMAIN inst : inst' = Drop(inst, {n})
  /\ UNCHANGED << store, due, info, active, healthy, now, env, pc, call, loc, ret, obs, last, monVars, flagVars >>

ExpireActive ==
  /\ \E n \in DOMAIN active : active' = Drop(active, {n})
  /\ UNCHANGED << store, due, info, inst, healthy, now, env, pc, call, loc, ret, obs, last, monVars, flagVars >>

ExpireHealthy ==
  /\ healthy # {}
  /\ healthy' = {}
  /\ UNCHANGED << store, due, info, inst, active, now, env, pc, call, loc, ret, obs, last, monVars, flagVars >>

\* Time passes.
Tick ==
  /\ now < MaxClock
  /\ now' = now + 1
  /\ UNCHANGED << store, cacheVars, env, pc, call, loc, ret, obs, last, monVars, flagVars >>

\* One step of one request.
Step(p) ==
  \/ Call(p) \/ Return(p)
  \/ reg_repo(p) \/ reg_instances(p) \/ reg_active(p) \/ reg_info(p) \/ reg_publish(p)
  \/ get_cache(p) \/ get_repo(p) \/ get_set(p)
  \/ hl_cache(p) \/ hl_repo(p) \/ hl_set(p)
  \/ uh_repo(p) \/ uh_instances(p) \/ uh_active(p) \/ uh_scan(p) \/ uh_delete(p)
  \/ uh_healthy(p) \/ uh_publish(p)
  \/ dr_repo(p) \/ dr_scan(p) \/ dr_delete(p) \/ dr_healthy(p) \/ dr_instances(p)
  \/ dr_active(p) \/ dr_publish(p)

\* ------------------------------------------------------------ health monitor
\* HealthMonitorService: start_monitoring and stop_monitoring, the task running
\* monitor_loop, and check_all_services, whose update_health is the
\* ServiceRegistryService call above made by the task.  asyncio.CancelledError
\* is a BaseException: none of the `except Exception` handlers on the way
\* catches it, so a cancelled task ends at the await it is suspended at.
RegistryVars == << store, cacheVars, now, env, pc, call, loc, ret, obs, last >>

\* The slot of the next task asyncio.create_task returns.
NewTask == IF task["t1"].at = "none" THEN "t1" ELSE "t2"
\* The task has been created, has not ended and has no cancellation pending.
Live(t) == task[t].at \notin { "none", "finished" } /\ ~task[t].cancelled
\* `while self.is_running:` as the task comes back from a sleep.
LoopTest == IF is_running THEN "get_all" ELSE "finished"
\* new_status = "healthy" if is_healthy else "unhealthy"
NewStatus(is_healthy) == IF is_healthy THEN "healthy" ELSE "unhealthy"
\* The parameters of start_monitoring, in ticks of the clock.
IntervalSeconds == 2
StartupDelay == 1
\* The clock of the runs in which time is kept stops here.
MaxTime == 4
\* response_time measured for a response that was received, in ms.
MeasuredTime == 7

\* str.lower() on the status strings.
Lower(v) == IF v = "HEALTHY" THEN "healthy" ELSE v
\* response.json() succeeded and gave a dict: the status is read from the
\* detail member when that is a dict, from the top level otherwise; a missing
\* status reads "", and .lower() of a value that is no string raises.
StatusSource(body) ==
  IF body.detail # None /\ Val(body.detail).type = "obj"
  THEN Val(body.detail).status ELSE body.status
StatusRaises(body) ==
  StatusSource(body) # None /\ Val(StatusSource(body)).type # "str"
StatusOf(body) ==
  IF StatusSource(body) = None THEN "" ELSE Lower(Val(StatusSource(body)).s)
\* IsHealthy, but by the HTTP status code alone.
IsHealthyByCode(code, body) == code = 200

\* is_healthy for a response that was received.
IsHealthy(code, body) ==
  IF body.json = "invalid" THEN code = 200
  ELSE IF body.json # "object" THEN FALSE
  ELSE IF StatusRaises(body) THEN code = 200
  ELSE IF StatusOf(body) = "healthy" THEN TRUE
  ELSE IF StatusOf(body) \in { "unhealthy", "error", "down" } THEN FALSE
  ELSE code = 200
\* check_service_health of a service with a URL: (is_healthy, response_time);
\* every exception of the GET gives (False, 0.0).
check_service_health(answer) ==
  IF answer.kind = "response"
  THEN [ is_healthy |-> IsHealthy(answer.code, answer.body),
         response_time |-> MeasuredTime ]
  ELSE [ is_healthy |-> FALSE, response_time |-> 0 ]

\* The time an asyncio.sleep of `d` that begins now ends.
WakeAt(d) == IF world.timed THEN now + d ELSE 0
\* The sleep of the task has run its time.
Awake(t) == world.timed => now >= task[t].wake
\* The task record as the cycle ends and asyncio.sleep(interval_seconds) begins.
EndCycle(tk) == [ tk EXCEPT !.at = "sleep", !.wake = WakeAt(IntervalSeconds) ]
\* The task record as a sleep returns and `while self.is_running` is tested: a
\* cycle begins, or the loop is left.
Woken(tk) ==
  IF LoopTest = "get_all"
  THEN [ tk EXCEPT !.at = "get_all", !.wake = 0,
                   !.prev = tk.started,
                   !.started = IF world.timed THEN Some(now) ELSE None ]
  ELSE [ tk EXCEPT !.at = "finished", !.wake = 0 ]

\* start_monitoring, but without the is_running test.
start_monitoring_unguarded(c) ==
  /\ ctl[c].pc = "idle"
  /\ task[NewTask].at = "none"
  /\ is_running' = TRUE
  /\ monitor_task' = Some(NewTask)
  /\ task' = [ task EXCEPT ![NewTask].at = "startup_delay",
                           ![NewTask].wake = WakeAt(StartupDelay) ]
  /\ ctl' = [ ctl EXCEPT ![c] = [ pc |-> "start_done", task |-> Some(NewTask) ] ]
  /\ UNCHANGED << RegistryVars, flagVars, world >>

\* start_monitoring: no await, so it runs in one piece.  Running already: log
\* and return.  Otherwise set is_running and create the task.
start_monitoring(c) ==
  /\ ctl[c].pc = "idle"
  /\ IF is_running
     THEN /\ ctl' = [ ctl EXCEPT ![c] = [ pc |-> "start_done", task |-> None ] ]
          /\ UNCHANGED << is_running, monitor_task, task >>
     ELSE /\ task[NewTask].at = "none"
          /\ is_running' = TRUE
          /\ monitor_task' = Some(NewTask)
          /\ task' = [ task EXCEPT ![NewTask].at = "startup_delay",
                                   ![NewTask].wake = WakeAt(StartupDelay) ]
          /\ ctl' = [ ctl EXCEPT ![c] = [ pc |-> "start_done", task |-> Some(NewTask) ] ]
  /\ UNCHANGED << RegistryVars, flagVars, world >>

\* stop_monitoring up to its await.  Not running: return.  Otherwise clear
\* is_running and cancel monitor_task (no effect on a task that has ended).
stop_monitoring(c) ==
  /\ ctl[c].pc = "idle"
  /\ IF ~is_running
     THEN /\ ctl' = [ ctl EXCEPT ![c] = [ pc |-> "stop_done", task |-> None ] ]
          /\ UNCHANGED << is_running, monitor_task, task >>
     ELSE /\ is_running' = FALSE
          /\ IF monitor_task # None
             THEN /\ task' = [ task EXCEPT ![Val(monitor_task)].cancelled =
                                 task[Val(monitor_task)].at # "finished" ]
                  /\ ctl' = [ ctl EXCEPT ![c] = [ pc |-> "stop_await", task |-> monitor_task ] ]
             ELSE /\ ctl' = [ ctl EXCEPT ![c] = [ pc |-> "stop_done", task |-> None ] ]
                  /\ UNCHANGED task
          /\ UNCHANGED monitor_task
  /\ UNCHANGED << RegistryVars, flagVars, world >>

\* stop_await, but returning without awaiting the task.
stop_await_unawaited(c) ==
  /\ ctl[c].pc = "stop_await"
  /\ ctl' = [ ctl EXCEPT ![c].pc = "stop_done" ]
  /\ UNCHANGED << RegistryVars, flagVars, is_running, monitor_task, task, world >>

\* `await self.monitor_task` in stop_monitoring: resumes when the task has ended.
stop_await(c) ==
  /\ ctl[c].pc = "stop_await"
  /\ task[Val(ctl[c].task)].at = "finished"
  /\ ctl' = [ ctl EXCEPT ![c].pc = "stop_done" ]
  /\ UNCHANGED << RegistryVars, flagVars, is_running, monitor_task, task, world >>

\* start_monitoring or stop_monitoring has returned to its caller.
ctl_return(c) ==
  /\ ctl[c].pc \in { "start_done", "stop_done" }
  /\ ctl' = [ ctl EXCEPT ![c] = NoCtl ]
  /\ UNCHANGED << RegistryVars, flagVars, is_running, monitor_task, task, world >>

\* What a step of the loop itself leaves alone.
LoopFrame == UNCHANGED << RegistryVars, flagVars, is_running, monitor_task, ctl, world >>

\* await asyncio.sleep(startup_delay) returns; the loop test follows.
t_startup(t) ==
  /\ Live(t) /\ task[t].at = "startup_delay" /\ Awake(t)
  /\ task' = [ task EXCEPT ![t] = Woken(@) ]
  /\ LoopFrame

\* t_get_all, but the failure of the registry read ends the task.
t_get_all_unhandled(t) ==
  /\ Live(t) /\ task[t].at = "get_all"
  /\ \E ok \in StoreOutcomes :
       task' = [ task EXCEPT ![t] =
         IF ~ok THEN [ @ EXCEPT !.at = "finished", !.failed = TRUE ]
         ELSE IF DOMAIN store = {} THEN [ @ EXCEPT !.at = "sleep", !.failed = FALSE ]
         ELSE [ @ EXCEPT !.at = "probe", !.failed = FALSE,
                         !.services = [ n \in DOMAIN store |-> store[n].status ],
                         !.results = << >> ] ]
  /\ LoopFrame

\* check_all_services: services = await get_all_services().  A failure is
\* caught and logged ("Error in health check cycle"); no services: return.
t_get_all(t) ==
  /\ Live(t) /\ task[t].at = "get_all"
  /\ \E ok \in StoreOutcomes :
       task' = [ task EXCEPT ![t] =
         IF ~ok THEN [ EndCycle(@) EXCEPT !.failed = TRUE ]
         ELSE IF DOMAIN store = {} THEN [ EndCycle(@) EXCEPT !.failed = FALSE ]
         ELSE [ @ EXCEPT !.at = "probe", !.failed = FALSE,
                         !.services = [ n \in DOMAIN store |-> store[n].status ],
                         !.results = << >> ] ]
  /\ LoopFrame

\* is_healthy, response_time = await self.check_service_health(service): the
\* verdict of the endpoint now; a failing probe reads as not healthy.
t_probe(t) ==
  /\ Live(t) /\ task[t].at = "probe"
  /\ \E n \in DOMAIN task[t].services \ DOMAIN task[t].results :
       LET results == Put(task[t].results, n,
                          [ current_status |-> task[t].services[n],
                            is_healthy |-> check_service_health(world.answer[n]).is_healthy,
                            response_time |->
                              check_service_health(world.answer[n]).response_time ]) IN
       task' = [ task EXCEPT ![t].results = results,
                             ![t].at = IF DOMAIN results = DOMAIN task[t].services
                                       THEN "update" ELSE "probe" ]
  /\ LoopFrame

\* t_update, but no result is ever written back.
t_update_skips(t) ==
  /\ Live(t) /\ task[t].at = "update"
  /\ \E n \in DOMAIN task[t].results :
       LET rest == Drop(task[t].results, { n }) IN
       task' = [ task EXCEPT ![t] =
                 IF DOMAIN rest = {} THEN EndCycle([ @ EXCEPT !.results = rest ])
                 ELSE [ @ EXCEPT !.results = rest ] ]
  /\ LoopFrame

\* t_update, but update_health is called for every result.
t_update_ungated(t) ==
  /\ Live(t) /\ task[t].at = "update"
  /\ \E n \in DOMAIN task[t].results :
       LET r == task[t].results[n]
           rest == Drop(task[t].results, { n })
           c == [ NoCall EXCEPT !.op = "update_health", !.name = n,
                                !.status = NewStatus(r.is_healthy),
                                !.rt = Some(r.response_time) ] IN
       /\ task' = [ task EXCEPT ![t].results = rest, ![t].at = "in_update" ]
       /\ call' = [ call EXCEPT ![t] = c ]
       /\ pc' = [ pc EXCEPT ![t] = "uh_repo" ]
       /\ obs' = [ q \in Agents |->
            IF q = t
            THEN [ NoObs EXCEPT
                     !.pre = IF n \in DOMAIN store THEN Some(store[n]) ELSE None,
                     !.wasCached = n \in DOMAIN info ]
            ELSE [ obs[q] EXCEPT !.fresh = FALSE ] ]
  /\ UNCHANGED << store, cacheVars, now, env, loc, ret, last, flagVars >>
  /\ UNCHANGED << is_running, monitor_task, ctl, world >>

\* The next health result: update_health is called when the status of the
\* snapshot differs from the new one or is unknown, otherwise nothing is done.
t_update(t) ==
  /\ Live(t) /\ task[t].at = "update"
  /\ \E n \in DOMAIN task[t].results :
       LET r == task[t].results[n]
           rest == Drop(task[t].results, { n })
           c == [ NoCall EXCEPT !.op = "update_health", !.name = n,
                                !.status = NewStatus(r.is_healthy),
                                !.rt = Some(r.response_time) ] IN
       IF r.current_status # NewStatus(r.is_healthy) \/ r.current_status = "unknown"
       THEN /\ task' = [ task EXCEPT ![t].results = rest, ![t].at = "in_update" ]
            /\ call' = [ call EXCEPT ![t] = c ]
            /\ pc' = [ pc EXCEPT ![t] = "uh_repo" ]
            /\ obs' = [ q \in Agents |->
                 IF q = t
                 THEN [ NoObs EXCEPT
                          !.pre = IF n \in DOMAIN store THEN Some(store[n]) ELSE None,
                          !.wasCached = n \in DOMAIN info ]
                 ELSE [ obs[q] EXCEPT !.fresh = FALSE ] ]
       ELSE /\ task' = [ task EXCEPT ![t] =
                      IF DOMAIN rest = {} THEN EndCycle([ @ EXCEPT !.results = rest ])
                      ELSE [ @ EXCEPT !.results = rest ] ]
            /\ UNCHANGED << call, pc, obs >>
  /\ UNCHANGED << store, cacheVars, now, env, loc, ret, last, flagVars >>
  /\ UNCHANGED << is_running, monitor_task, ctl, world >>

\* The update_health call of the task, step by step.
t_call(t) ==
  /\ Live(t) /\ task[t].at = "in_update"
  /\ \/ uh_repo(t) \/ uh_instances(t) \/ uh_active(t) \/ uh_scan(t)
     \/ uh_delete(t) \/ uh_healthy(t) \/ uh_publish(t)

\* t_update_done, but an update_health that raised ends the cycle.
t_update_done_aborts(t) ==
  /\ Live(t) /\ task[t].at = "in_update" /\ pc[t] = "done"
  /\ LET tk == [ task[t] EXCEPT !.failed = @ \/ ret[t].kind = "error",
                                 !.lost = ret[t].kind = "error" ] IN
     task' = [ task EXCEPT ![t] =
                 IF ret[t].kind = "error" THEN EndCycle([ tk EXCEPT !.results = << >> ])
                 ELSE IF DOMAIN tk.results = {} THEN EndCycle(tk)
                 ELSE [ tk EXCEPT !.at = "update" ] ]
  /\ pc' = [ pc EXCEPT ![t] = "idle" ]
  /\ call' = [ call EXCEPT ![t] = NoCall ]
  /\ loc' = [ loc EXCEPT ![t] = NoLoc ]
  /\ ret' = [ ret EXCEPT ![t] = NoRet ]
  /\ obs' = [ obs EXCEPT ![t] = NoObs ]
  /\ UNCHANGED << store, cacheVars, now, env, last, flagVars >>
  /\ UNCHANGED << is_running, monitor_task, ctl, world >>

\* update_health has returned or raised; an exception is caught and logged
\* ("Error updating health"), and the loop over the results goes on.
t_update_done(t) ==
  /\ Live(t) /\ task[t].at = "in_update" /\ pc[t] = "done"
  /\ LET tk == [ task[t] EXCEPT !.failed = @ \/ ret[t].kind = "error",
                                 !.lost = ret[t].kind = "error" ] IN
     task' = [ task EXCEPT ![t] = IF DOMAIN tk.results = {} THEN EndCycle(tk)
                                  ELSE [ tk EXCEPT !.at = "update" ] ]
  /\ pc' = [ pc EXCEPT ![t] = "idle" ]
  /\ call' = [ call EXCEPT ![t] = NoCall ]
  /\ loc' = [ loc EXCEPT ![t] = NoLoc ]
  /\ ret' = [ ret EXCEPT ![t] = NoRet ]
  /\ obs' = [ obs EXCEPT ![t] = NoObs ]
  /\ UNCHANGED << store, cacheVars, now, env, last, flagVars >>
  /\ UNCHANGED << is_running, monitor_task, ctl, world >>

\* t_sleep, but the loop begins again with the startup delay.
t_sleep_restarts(t) ==
  /\ Live(t) /\ task[t].at = "sleep" /\ Awake(t)
  /\ task' = [ task EXCEPT ![t].at = "startup_delay", ![t].wake = WakeAt(StartupDelay) ]
  /\ LoopFrame

\* await asyncio.sleep(interval_seconds) returns; the loop test follows.
t_sleep(t) ==
  /\ Live(t) /\ task[t].at = "sleep" /\ Awake(t)
  /\ task' = [ task EXCEPT ![t] = Woken(@) ]
  /\ LoopFrame

\* The cancellation requested by stop_monitoring reaches the task at the await
\* it is suspended at: CancelledError leaves monitor_loop and the task ends.
t_cancelled(t) ==
  /\ task[t].cancelled /\ task[t].at \notin { "none", "finished" }
  /\ task' = [ task EXCEPT ![t] = [ NoTask EXCEPT !.at = "finished", !.cancelled = TRUE,
                                                  !.failed = task[t].failed,
                                                  !.lost = task[t].lost ] ]
  /\ pc' = [ pc EXCEPT ![t] = "idle" ]
  /\ call' = [ call EXCEPT ![t] = NoCall ]
  /\ loc' = [ loc EXCEPT ![t] = NoLoc ]
  /\ ret' = [ ret EXCEPT ![t] = NoRet ]
  /\ obs' = [ obs EXCEPT ![t] = NoObs ]
  /\ UNCHANGED << store, cacheVars, now, env, last, flagVars >>
  /\ UNCHANGED << is_running, monitor_task, ctl, world >>

\* One step of one monitor task.
TaskStep(t) ==
  \/ t_startup(t) \/ t_get_all(t) \/ t_probe(t) \/ t_update(t) \/ t_call(t)
  \/ t_update_done(t) \/ t_sleep(t) \/ t_cancelled(t)

\* A tick of the clock, where time is kept: no sooner than every sleep that is
\* due has returned.
Elapse ==
  /\ world.timed /\ now < MaxTime
  /\ \A t \in Tasks :
       Live(t) /\ task[t].at \in { "startup_delay", "sleep" } => now < task[t].wake
  /\ now' = now + 1
  /\ UNCHANGED << store, cacheVars, env, pc, call, loc, ret, obs, last, monVars, flagVars >>

\* A tick of the clock while the monitor sleeps: a cycle is short against the
\* interval and the TTL.
ElapseAsleep ==
  /\ \E t \in Tasks : Live(t)
  /\ \A t \in Tasks : Live(t) => task[t].at \in { "startup_delay", "sleep" }
  /\ Elapse

\* Where time is kept: service:<name>:instances or service:<name>:active has
\* reached the TTL of its last setex and is gone.
ExpireDue ==
  /\ world.timed
  /\ \E n \in Names :
       \/ /\ n \in DOMAIN inst /\ now >= due.inst[n]
          /\ inst' = Drop(inst, { n })
          /\ UNCHANGED active
       \/ /\ n \in DOMAIN active /\ now >= due.active[n]
          /\ active' = Drop(active, { n })
          /\ UNCHANGED inst
  /\ UNCHANGED << store, info, healthy, due, now, env, pc, call, loc, ret, obs, last,
                  monVars, flagVars >>

\* The endpoint of a registered service changes its answer.
Flip ==
  /\ ~world.stable
  /\ \E n \in DOMAIN store, a \in world.answers :
       /\ a # world.answer[n]
       /\ world' = [ world EXCEPT !.answer[n] = a ]
  /\ UNCHANGED << RegistryVars, flagVars, is_running, monitor_task, task, ctl >>

\* From here on the endpoints keep their answers, the store answers, and no
\* caller but the monitor touches the registry.
Settle ==
  /\ ~world.stable
  /\ is_running /\ Running = {} /\ DOMAIN store # {}
  /\ world' = [ world EXCEPT !.stable = TRUE ]
  /\ env' = [ env EXCEPT !.storeFaults = FALSE, !.requests = {} ]
  /\ UNCHANGED << store, cacheVars, now, pc, call, loc, ret, obs, last, flagVars >>
  /\ UNCHANGED << is_running, monitor_task, task, ctl >>

\* ------------------------------------------------------------ HTTP routing
\* The routes of a registry router in the order of their add_api_route calls.
\* A path is the sequence of its segments after the router's prefix; a segment
\* of a route is a literal or the path parameter {service_name}.
Lit(seg) == [ kind |-> "lit", seg |-> seg ]
PathParam == [ kind |-> "param", seg |-> << >> ]
RegistryRoutes ==
  << [ method |-> "POST", path |-> << Lit(<< "register" >>) >>, endpoint |-> "register_service" ],
     [ method |-> "GET", path |-> << PathParam >>, endpoint |-> "get_service" ],
     [ method |-> "GET", path |-> << >>, endpoint |-> "list_services" ],
     [ method |-> "GET", path |-> << Lit(<< "healthy" >>) >>, endpoint |-> "get_healthy_services" ],
     [ method |-> "PUT", path |-> << Lit(<< "health" >>) >>, endpoint |-> "update_service_health" ],
     [ method |-> "DELETE", path |-> << PathParam >>, endpoint |-> "deregister_service" ] >>
service_registry_router == [ prefix |-> "/api/v1/registry", routes |-> RegistryRoutes ]
service_registry_compat_router == [ prefix |-> "/api/v1/services", routes |-> RegistryRoutes ]
Routers == { service_registry_router, service_registry_compat_router }

\* A path parameter matches one non-empty segment, a literal matches itself.
SegMatches(pat, seg) == IF pat.kind = "lit" THEN seg = pat.seg ELSE seg # << >>
PathMatches(route, path) ==
  /\ Len(route.path) = Len(path)
  /\ \A i \in DOMAIN path : SegMatches(route.path[i], path[i])

\* The endpoint a request is dispatched to: the first route, in declaration
\* order, that matches path and method; 405 when only paths match, else 404.
Dispatch(req) ==
  LET rs == (CHOOSE r \in Routers : r.prefix = req.prefix).routes
      paths == { i \in DOMAIN rs : PathMatches(rs[i], req.path) }
      full == { i \in paths : rs[i].method = req.method }
  IN IF full # {} THEN rs[CHOOSE i \in full : \A j \in full : i <= j].endpoint
     ELSE IF paths # {} THEN "method_not_allowed"
     ELSE "not_found"

\* The requests of a client: the registry's operations on the names `ns`
\* under both prefixes, the healthy listing, and a POST the routers do not
\* serve.
HttpRequestsOver(ns, us, ms, ss, rs) ==
  LET Req(m, path, body) ==
        { [ prefix |-> r.prefix, method |-> m, path |-> path, body |-> body ] : r \in Routers }
  IN UNION ( { Req("POST", << << "register" >> >>,
                   [ NoCall EXCEPT !.name = n, !.url = u, !.meta = x ]) :
                 n \in ns, u \in us, x \in ms }
             \cup { Req("PUT", << << "health" >> >>,
                        [ NoCall EXCEPT !.name = n, !.status = st, !.rt = r ]) :
                      n \in ns, st \in ss, r \in rs }
             \cup { Req(m, << n >>, NoCall) : m \in { "GET", "DELETE" }, n \in ns }
             \cup { Req(m, << << "healthy" >> >>, NoCall) : m \in { "GET", "POST" } } )

\* The operation an endpoint calls on the registry service.
EndpointOp(endpoint) ==
  CASE endpoint = "register_service" -> "register"
    [] endpoint = "get_service" -> "get"
    [] endpoint = "get_healthy_services" -> "healthy"
    [] endpoint = "update_service_health" -> "update_health"
    [] endpoint = "deregister_service" -> "deregister"
    [] OTHER -> endpoint

\* The call of the endpoint: the path parameter or the body gives the name.
EndpointCall(req) ==
  LET ep == Dispatch(req) IN
  [ req.body EXCEPT
      !.op = EndpointOp(ep),
      !.name = IF ep \in { "get_service", "deregister_service" } THEN req.path[1] ELSE @,
      !.method = req.method,
      !.route = << req.prefix, req.path >> ]

\* A request arrives and is dispatched; a request no route serves is answered
\* at once.
HttpCall(p) ==
  /\ p \in env.procs
  /\ pc[p] = "idle"
  /\ \E req \in HttpRequestsOver({ << "a" >>, << "healthy" >> }, { "http://u1" }, { None },
                                 SUPPORTED_STATUSES, { None }) :
       LET c == EndpointCall(req) IN
       /\ call' = [ call EXCEPT ![p] = c ]
       /\ IF c.op \in { "method_not_allowed", "not_found", "list_services" }
          THEN /\ Finish(p, "unrouted", None)
               /\ obs' = [ obs EXCEPT ![p] = NoObs ]
          ELSE /\ Goto(p, FirstStep(c.op))
               /\ ret' = [ ret EXCEPT ![p] = NoRet ]
               /\ obs' = [ q \in Agents |->
                    IF q = p
                    THEN [ NoObs EXCEPT
                             !.fresh = \A r \in Running : call[r].op \notin Mutating,
                             !.pre = IF c.name \in DOMAIN store THEN Some(store[c.name]) ELSE None,
                             !.wasCached = c.name \in DOMAIN info ]
                    ELSE IF c.op \in Mutating THEN [ obs[q] EXCEPT !.fresh = FALSE ]
                    ELSE obs[q] ]
  /\ loc' = [ loc EXCEPT ![p] = NoLoc ]
  /\ UNCHANGED << store, cacheVars, now, env, last, monVars, flagVars >>

\* The status code of the response of a finished request.
StatusCode(p) ==
  LET op == call[p].op
      failed == ret[p].kind = "error"
  IN CASE op = "not_found" -> 404
       [] op = "method_not_allowed" -> 405
       [] op = "register" -> IF failed THEN 400 ELSE 200
       [] op \in { "get", "update_health" } ->
            IF failed THEN 500 ELSE IF ret[p].kind = "none" THEN 404 ELSE 200
       [] op = "deregister" ->
            IF failed THEN 500 ELSE IF ret[p].val = Some(FALSE) THEN 404 ELSE 200
       [] OTHER -> IF failed THEN 500 ELSE 200

\* One step of one HTTP request.  Dispatch sends no request to
\* get_healthy_services, so the steps of the healthy listing are not among them.
HttpStep(p) ==
  \/ HttpCall(p) \/ Return(p)
  \/ reg_repo(p) \/ reg_instances(p) \/ reg_active(p) \/ reg_info(p) \/ reg_publish(p)
  \/ get_cache(p) \/ get_repo(p) \/ get_set(p)
  \/ uh_repo(p) \/ uh_instances(p) \/ uh_active(p) \/ uh_scan(p) \/ uh_delete(p)
  \/ uh_healthy(p) \/ uh_publish(p)
  \/ dr_repo(p) \/ dr_scan(p) \/ dr_delete(p) \/ dr_healthy(p) \/ dr_instances(p)
  \/ dr_active(p) \/ dr_publish(p)

\* ------------------------------------------------------------ feature flags
\* FeatureFlagService: create, update, delete and evaluate over the table
\* feature_flags (name is unique; id, description and the timestamps are left
\* out, a flag is addressed by its name where the code uses its id) and the
\* Redis keys feature_flag:<name>:<environment>.
FlagNames == { "beta" }
Environments == { "production", "staging" }
\* rollout_percentage, in percent.
Rollouts == { 0, 50, 100 }
\* user_id of an evaluation: absent, empty, or a user.
UserIds == { None, Some(""), Some("u1"), Some("u3") }
\* target_users: absent, or a list.
TargetInputs == { None, Some(<< >>), Some(<< "u1" >>), Some(<< "", "u3" >>) }

\* int(hashlib.md5(s.encode()).hexdigest(), 16) % 100 for the strings hashed here.
Md5Mod100 == ("beta" :> 78) @@ ("betau1" :> 92) @@ ("betau3" :> 26)

\* percentage = hash of f"{name}{user_id}" % 100
Bucket(name, user_id) == Md5Mod100[name \o user_id]

\* Truth value of an optional string and of an optional list in `if x`.
TruthyStr(o) == o # None /\ Val(o) # ""
TruthyList(o) == o # None /\ Val(o) # << >>
\* user_id in flag.target_users
InList(u, l) == \E i \in DOMAIN l : l[i] = u

\* flag_dict, and the FeatureFlagResponse validated from it.
FlagDict(name, row) ==
  [ name |-> name,
    is_enabled |-> row.is_enabled,
    rollout_percentage |-> row.rollout_percentage,
    target_users |-> row.target_users,
    environment |-> row.environment ]

\* Evaluate, but with the allowlist tested before the disabled flag.
EvaluateTargetsFirst(flag, name, user_id) ==
  IF flag = None
  THEN [ enabled |-> FALSE, reason |-> << "flag_not_found" >> ]
  ELSE LET f == Val(flag) IN
       IF TruthyList(f.target_users) /\ TruthyStr(user_id)
          /\ InList(Val(user_id), Val(f.target_users))
       THEN [ enabled |-> TRUE, reason |-> << "user_targeted" >> ]
       ELSE IF ~f.is_enabled /\ f.rollout_percentage = 0
       THEN [ enabled |-> FALSE, reason |-> << "globally_disabled" >> ]
       ELSE IF TruthyStr(user_id) /\ f.rollout_percentage > 0
               /\ Bucket(name, Val(user_id)) < f.rollout_percentage
       THEN [ enabled |-> TRUE, reason |-> << "rollout_percentage", f.rollout_percentage >> ]
       ELSE [ enabled |-> f.is_enabled, reason |-> << "globally_enabled" >> ]

\* Evaluate, but without the test for a disabled flag.
EvaluateNoDisabledRule(flag, name, user_id) ==
  IF flag = None
  THEN [ enabled |-> FALSE, reason |-> << "flag_not_found" >> ]
  ELSE LET f == Val(flag) IN
       IF TruthyList(f.target_users) /\ TruthyStr(user_id)
          /\ InList(Val(user_id), Val(f.target_users))
       THEN [ enabled |-> TRUE, reason |-> << "user_targeted" >> ]
       ELSE IF TruthyStr(user_id) /\ f.rollout_percentage > 0
               /\ Bucket(name, Val(user_id)) < f.rollout_percentage
       THEN [ enabled |-> TRUE, reason |-> << "rollout_percentage", f.rollout_percentage >> ]
       ELSE [ enabled |-> f.is_enabled, reason |-> << "globally_enabled" >> ]

\* Evaluate, but without the allowlist.
EvaluateIgnoresTargets(flag, name, user_id) ==
  IF flag = None
  THEN [ enabled |-> FALSE, reason |-> << "flag_not_found" >> ]
  ELSE LET f == Val(flag) IN
       IF ~f.is_enabled /\ f.rollout_percentage = 0
       THEN [ enabled |-> FALSE, reason |-> << "globally_disabled" >> ]
       ELSE IF TruthyStr(user_id) /\ f.rollout_percentage > 0
               /\ Bucket(name, Val(user_id)) < f.rollout_percentage
       THEN [ enabled |-> TRUE, reason |-> << "rollout_percentage", f.rollout_percentage >> ]
       ELSE [ enabled |-> f.is_enabled, reason |-> << "globally_enabled" >> ]

\* Evaluate, but with the rollout given to the buckets above the percentage.
EvaluateBucketAbove(flag, name, user_id) ==
  IF flag = None
  THEN [ enabled |-> FALSE, reason |-> << "flag_not_found" >> ]
  ELSE LET f == Val(flag) IN
       IF ~f.is_enabled /\ f.rollout_percentage = 0
       THEN [ enabled |-> FALSE, reason |-> << "globally_disabled" >> ]
       ELSE IF TruthyList(f.target_users) /\ TruthyStr(user_id)
               /\ InList(Val(user_id), Val(f.target_users))
       THEN [ enabled |-> TRUE, reason |-> << "user_targeted" >> ]
       ELSE IF TruthyStr(user_id) /\ f.rollout_percentage > 0
               /\ Bucket(name, Val(user_id)) > f.rollout_percentage
       THEN [ enabled |-> TRUE, reason |-> << "rollout_percentage", f.rollout_percentage >> ]
       ELSE [ enabled |-> f.is_enabled, reason |-> << "globally_enabled" >> ]

\* evaluate_feature_flag once get_feature_flag has returned `flag`: the tests
\* in the order of the code, with Python's truth values.
Evaluate(flag, name, user_id) ==
  IF flag = None
  THEN [ enabled |-> FALSE, reason |-> << "flag_not_found" >> ]
  ELSE LET f == Val(flag) IN
       IF ~f.is_enabled /\ f.rollout_percentage = 0
       THEN [ enabled |-> FALSE, reason |-> << "globally_disabled" >> ]
       ELSE IF TruthyList(f.target_users) /\ TruthyStr(user_id)
               /\ InList(Val(user_id), Val(f.target_users))
       THEN [ enabled |-> TRUE, reason |-> << "user_targeted" >> ]
       ELSE IF TruthyStr(user_id) /\ f.rollout_percentage > 0
               /\ Bucket(name, Val(user_id)) < f.rollout_percentage
       THEN [ enabled |-> TRUE, reason |-> << "rollout_percentage", f.rollout_percentage >> ]
       ELSE [ enabled |-> f.is_enabled, reason |-> << "globally_enabled" >> ]

\* FeatureFlagRepository.update: the fields given are assigned, the others stay.
UpdateFlagRow(row, c) ==
  [ row EXCEPT !.is_enabled = IF c.is_enabled = None THEN @ ELSE Val(c.is_enabled),
               !.rollout_percentage = IF c.rollout_percentage = None THEN @
                                      ELSE Val(c.rollout_percentage),
               !.target_users = IF c.target_users = None THEN @ ELSE c.target_users ]

\* FeatureFlagRepository.get_by_name(name, environment)
FlagByName(name, environment) ==
  IF name \in DOMAIN fstore /\ fstore[name].environment = environment
  THEN Some(fstore[name]) ELSE None

NoFlagCall == [ op |-> "none", name |-> "", environment |-> "", is_enabled |-> None,
                rollout_percentage |-> None, target_users |-> None, user_id |-> None ]
FlagMutating == { "create", "update", "delete" }

\* The calls a caller can make on the flags.
FlagRequestsOver(envs, enabled, rollouts, targets, users) ==
  { [ NoFlagCall EXCEPT !.op = "create", !.name = n, !.environment = e,
                        !.is_enabled = Some(b), !.rollout_percentage = Some(r),
                        !.target_users = t ] :
      n \in FlagNames, e \in envs, b \in enabled, r \in rollouts, t \in targets }
  \cup { [ NoFlagCall EXCEPT !.op = "update", !.name = n, !.is_enabled = b,
                             !.rollout_percentage = r, !.target_users = t ] :
      n \in FlagNames, b \in { None } \cup { Some(x) : x \in enabled },
      r \in { None } \cup { Some(x) : x \in rollouts }, t \in targets }
  \cup { [ NoFlagCall EXCEPT !.op = "delete", !.name = n ] : n \in FlagNames }
  \cup { [ NoFlagCall EXCEPT !.op = "evaluate", !.name = n, !.environment = e,
                             !.user_id = u ] :
      n \in FlagNames, e \in envs, u \in users }

FlagFirstStep(op) ==
  CASE op = "create" -> "ff_create_repo"
    [] op = "update" -> "ff_update_repo"
    [] op = "delete" -> "ff_delete_find"
    [] op = "evaluate" -> "ev_cache"

\* What a step of a flag request leaves alone besides what it names.
FlagFrame == UNCHANGED << store, cacheVars, now, env, call, last, monVars >>
\* The cache key of the request.
FlagKey(p) == << call[p].name, call[p].environment >>

\* A caller starts one operation of FeatureFlagService.
FlagCall(p) ==
  /\ p \in env.procs
  /\ pc[p] = "idle"
  /\ \E c \in env.requests :
       /\ call' = [ call EXCEPT ![p] = c ]
       /\ Goto(p, FlagFirstStep(c.op))
       /\ obs' = [ q \in Agents |->
            IF q = p
            THEN [ NoObs EXCEPT
                     !.fresh = \A r \in Running : call[r].op \notin FlagMutating,
                     !.pre = IF c.name \in DOMAIN fstore THEN Some(fstore[c.name]) ELSE None ]
            ELSE IF c.op \in FlagMutating THEN [ obs[q] EXCEPT !.fresh = FALSE ]
            ELSE obs[q] ]
  /\ loc' = [ loc EXCEPT ![p] = NoLoc ]
  /\ ret' = [ ret EXCEPT ![p] = NoRet ]
  /\ UNCHANGED << store, cacheVars, now, env, last, monVars, flagVars >>

\* ---- create_feature_flag
\* flag = await self.repository.create(...): a name already there violates the
\* unique constraint; rollback and DatabaseError.
ff_create_repo(p) ==
  /\ pc[p] = "ff_create_repo"
  /\ \E ok \in StoreOutcomes :
       IF ok /\ call[p].name \notin DOMAIN fstore
       THEN LET row == [ environment |-> call[p].environment,
                         is_enabled |-> Val(call[p].is_enabled),
                         rollout_percentage |-> Val(call[p].rollout_percentage),
                         target_users |-> call[p].target_users ] IN
            /\ fstore' = Put(fstore, call[p].name, row)
            /\ loc' = [ loc EXCEPT ![p].service = Some(row) ]
            /\ Note(p, "committed", TRUE)
            /\ Goto(p, "ff_create_cache")
            /\ UNCHANGED ret
       ELSE /\ Note(p, "storeError", TRUE)
            /\ Raise(p, "DatabaseError")
            /\ UNCHANGED << fstore, loc >>
  /\ UNCHANGED fcache
  /\ FlagFrame

\* await self.cache_service.set(cache_key, {...}, ttl=FEATURE_FLAG_CACHE_TTL)
ff_create_cache(p) ==
  /\ pc[p] = "ff_create_cache"
  /\ \E ok \in CacheOutcomes :
       IF ok
       THEN /\ fcache' = Put(fcache, FlagKey(p), FlagDict(call[p].name, Val(loc[p].service)))
            /\ Note(p, "touched", TRUE)
       ELSE /\ Note(p, "cacheError", TRUE)
            /\ UNCHANGED fcache
  /\ Goto(p, "ff_create_publish")
  /\ UNCHANGED << fstore, loc, ret >>
  /\ FlagFrame

\* publish "create", then return flag.
ff_create_publish(p) ==
  /\ pc[p] = "ff_create_publish"
  /\ Publish(p)
  /\ Finish(p, "row", loc[p].service)
  /\ UNCHANGED << flagVars, loc >>
  /\ FlagFrame

\* ---- update_feature_flag
\* flag = await self.repository.update(id, ...); None is returned as None.
ff_update_repo(p) ==
  /\ pc[p] = "ff_update_repo"
  /\ \E ok \in StoreOutcomes :
       IF ~ok
       THEN /\ Note(p, "storeError", TRUE)
            /\ Raise(p, "DatabaseError")
            /\ UNCHANGED << fstore, loc >>
       ELSE IF call[p].name \in DOMAIN fstore
       THEN LET row == UpdateFlagRow(fstore[call[p].name], call[p]) IN
            /\ fstore' = Put(fstore, call[p].name, row)
            /\ loc' = [ loc EXCEPT ![p].service = Some(row) ]
            /\ Note(p, "committed", TRUE)
            /\ Goto(p, "ff_update_cache")
            /\ UNCHANGED ret
       ELSE /\ Finish(p, "none", None)
            /\ UNCHANGED << fstore, loc, obs >>
  /\ UNCHANGED fcache
  /\ FlagFrame

\* await self.cache_service.delete("feature_flag:<flag.name>:<flag.environment>")
ff_update_cache(p) ==
  /\ pc[p] = "ff_update_cache"
  /\ \E ok \in CacheOutcomes :
       IF ok
       THEN /\ fcache' = Drop(fcache, { << call[p].name, Val(loc[p].service).environment >> })
            /\ Note(p, "touched", TRUE)
       ELSE /\ Note(p, "cacheError", TRUE)
            /\ UNCHANGED fcache
  /\ Goto(p, "ff_update_publish")
  /\ UNCHANGED << fstore, loc, ret >>
  /\ FlagFrame

\* publish "update", then return flag.
ff_update_publish(p) ==
  /\ pc[p] = "ff_update_publish"
  /\ Publish(p)
  /\ Finish(p, "row", loc[p].service)
  /\ UNCHANGED << flagVars, loc >>
  /\ FlagFrame

\* ---- delete_feature_flag
\* existing = select by id; not there: return False.
ff_delete_find(p) ==
  /\ pc[p] = "ff_delete_find"
  /\ \E ok \in StoreOutcomes :
       IF ~ok
       THEN /\ Note(p, "storeError", TRUE)
            /\ Raise(p, "DatabaseError")
            /\ UNCHANGED loc
       ELSE IF call[p].name \in DOMAIN fstore
       THEN /\ loc' = [ loc EXCEPT ![p].service = Some(fstore[call[p].name]) ]
            /\ Goto(p, "ff_delete_repo")
            /\ UNCHANGED << ret, obs >>
       ELSE /\ Finish(p, "bool", Some(FALSE))
            /\ UNCHANGED << loc, obs >>
  /\ UNCHANGED flagVars
  /\ FlagFrame

\* success = await self.repository.delete(id); False is returned as False.
ff_delete_repo(p) ==
  /\ pc[p] = "ff_delete_repo"
  /\ \E ok \in StoreOutcomes :
       IF ~ok
       THEN /\ Note(p, "storeError", TRUE)
            /\ Raise(p, "DatabaseError")
            /\ UNCHANGED fstore
       ELSE IF call[p].name \in DOMAIN fstore
       THEN /\ fstore' = Drop(fstore, { call[p].name })
            /\ Note(p, "committed", TRUE)
            /\ Goto(p, "ff_delete_cache")
            /\ UNCHANGED ret
       ELSE /\ Finish(p, "bool", Some(FALSE))
            /\ UNCHANGED << fstore, obs >>
  /\ UNCHANGED << fcache, loc >>
  /\ FlagFrame

\* await self.cache_service.delete("feature_flag:<existing.name>:<existing.environment>")
ff_delete_cache(p) ==
  /\ pc[p] = "ff_delete_cache"
  /\ \E ok \in CacheOutcomes :
       IF ok
       THEN /\ fcache' = Drop(fcache, { << call[p].name, Val(loc[p].service).environment >> })
            /\ Note(p, "touched", TRUE)
       ELSE /\ Note(p, "cacheError", TRUE)
            /\ UNCHANGED fcache
  /\ Goto(p, "ff_delete_publish")
  /\ UNCHANGED << fstore, loc, ret >>
  /\ FlagFrame

\* publish "delete", then return success.
ff_delete_publish(p) ==
  /\ pc[p] = "ff_delete_publish"
  /\ Publish(p)
  /\ Finish(p, "bool", Some(TRUE))
  /\ UNCHANGED << flagVars, loc >>
  /\ FlagFrame

\* ---- evaluate_feature_flag
\* get_feature_flag: cached = await self.cache_service.get(cache_key); a hit is
\* validated and evaluated.
ev_cache(p) ==
  /\ pc[p] = "ev_cache"
  /\ \E ok \in CacheOutcomes :
       IF ok /\ FlagKey(p) \in DOMAIN fcache
       THEN /\ Finish(p, "result",
                      Some(Evaluate(Some(fcache[FlagKey(p)]), call[p].name, call[p].user_id)))
            /\ UNCHANGED obs
       ELSE /\ Goto(p, "ev_repo")
            /\ obs' = [ obs EXCEPT ![p].cacheError = ~ok ]
            /\ UNCHANGED ret
  /\ UNCHANGED << flagVars, loc >>
  /\ FlagFrame

\* flag = await self.repository.get_by_name(name, environment); None evaluates
\* to flag_not_found.
ev_repo(p) ==
  /\ pc[p] = "ev_repo"
  /\ \E ok \in StoreOutcomes :
       IF ~ok
       THEN /\ Note(p, "storeError", TRUE)
            /\ Raise(p, "DatabaseError")
            /\ UNCHANGED loc
       ELSE IF FlagByName(call[p].name, call[p].environment) # None
       THEN /\ loc' = [ loc EXCEPT ![p].service =
                          FlagByName(call[p].name, call[p].environment) ]
            /\ Goto(p, "ev_set")
            /\ UNCHANGED << ret, obs >>
       ELSE /\ Finish(p, "result", Some(Evaluate(None, call[p].name, call[p].user_id)))
            /\ UNCHANGED << loc, obs >>
  /\ UNCHANGED flagVars
  /\ FlagFrame

\* ev_set, but an evaluation that switches the flag it evaluated on in the store.
ev_set_enables(p) ==
  /\ pc[p] = "ev_set"
  /\ fstore' = [ fstore EXCEPT ![call[p].name].is_enabled = TRUE ]
  /\ Finish(p, "result", Some(Evaluate(loc[p].service, call[p].name, call[p].user_id)))
  /\ UNCHANGED << fcache, loc, obs >>
  /\ FlagFrame

\* await self.cache_service.set(cache_key, flag_dict); the flag validated from
\* flag_dict is evaluated.
ev_set(p) ==
  /\ pc[p] = "ev_set"
  /\ LET d == FlagDict(call[p].name, Val(loc[p].service)) IN
     /\ \E ok \in CacheOutcomes :
          IF ok
          THEN /\ fcache' = Put(fcache, FlagKey(p), d)
               /\ Note(p, "touched", TRUE)
          ELSE /\ Note(p, "cacheError", TRUE)
               /\ UNCHANGED fcache
     /\ Finish(p, "result", Some(Evaluate(Some(d), call[p].name, call[p].user_id)))
  /\ UNCHANGED << fstore, loc >>
  /\ FlagFrame

\* The caller takes the result.  The history keeps, with the call and its
\* result, the row its flag had in the store and whether the call ran clear of
\* every mutating call.
FlagReturn(p) ==
  /\ pc[p] = "done"
  /\ last' = IF env.history
             THEN [ call |-> call[p], ret |-> ret[p],
                    flag |-> FlagByName(call[p].name, call[p].environment),
                    fresh |-> obs[p].fresh ]
             ELSE last
  /\ pc' = [ pc EXCEPT ![p] = "idle" ]
  /\ call' = [ call EXCEPT ![p] = NoCall ]
  /\ loc' = [ loc EXCEPT ![p] = NoLoc ]
  /\ ret' = [ ret EXCEPT ![p] = NoRet ]
  /\ obs' = [ obs EXCEPT ![p] = NoObs ]
  /\ UNCHANGED << store, cacheVars, now, env, monVars, flagVars >>

\* A flag's cache entry reaches FEATURE_FLAG_CACHE_TTL.
FlagExpire ==
  /\ \E k \in DOMAIN fcache : fcache' = Drop(fcache, { k })
  /\ UNCHANGED << store, cacheVars, now, env, pc, call, loc, ret, obs, last, monVars, fstore >>

\* One step of one flag request.
FlagStep(p) ==
  \/ FlagCall(p) \/ FlagReturn(p)
  \/ ff_create_repo(p) \/ ff_create_cache(p) \/ ff_create_publish(p)
  \/ ff_update_repo(p) \/ ff_update_cache(p) \/ ff_update_publish(p)
  \/ ff_delete_find(p) \/ ff_delete_repo(p) \/ ff_delete_cache(p) \/ ff_delete_publish(p)
  \/ ev_cache(p) \/ ev_repo(p) \/ ev_set(p)

\* ------------------------------------------------------------ specifications
\* Sequential use of two services, one a name prefix of the other: one caller,
\* one call at a time, no faults; the cache entries the service reads expire at
\* any moment.
EnvSeq ==
  [ procs |-> { "p1" }, cacheFaults |-> FALSE, storeFaults |-> FALSE,
    busFaults |-> FALSE, producer |-> TRUE, history |-> TRUE,
    requests |-> RequestsOver(Names, Urls, { None }, SUPPORTED_STATUSES, { None }) ]
NextSeq == (\E p \in Procs : Step(p)) \/ ExpireInfo \/ ExpireHealthy
SpecSeq == InitWith(EnvSeq) /\ [][NextSeq]_vars

\* Sequential use of one service with every argument, a running clock and
\* every key expiring.
EnvOne ==
  [ procs |-> { "p1" }, cacheFaults |-> FALSE, storeFaults |-> FALSE,
    busFaults |-> FALSE, producer |-> TRUE, history |-> TRUE,
    requests |-> RequestsOver({ <<"a">> }, Urls, MetaInputs, SUPPORTED_STATUSES, RtInputs) ]
NextOne ==
  \/ \E p \in Procs : Step(p)
  \/ ExpireInfo \/ ExpireInstances \/ ExpireActive \/ ExpireHealthy
  \/ Tick
SpecOne == InitWith(EnvOne) /\ [][NextOne]_vars

\* Sequential use of one service while Redis commands, transactions and
\* producer.send may each fail.
EnvFault ==
  [ procs |-> { "p1" }, cacheFaults |-> TRUE, storeFaults |-> TRUE,
    busFaults |-> TRUE, producer |-> TRUE, history |-> FALSE,
    requests |-> RequestsOver({ <<"a">> }, Urls, { None }, SUPPORTED_STATUSES, { None }) ]
NextFault == (\E p \in Procs : Step(p)) \/ ExpireInfo \/ ExpireHealthy
SpecFault == InitWith(EnvFault) /\ [][NextFault]_vars

\* Two requests on one service interleaving at their awaits, no faults.
EnvConc ==
  [ procs |-> { "p1", "p2" }, cacheFaults |-> FALSE, storeFaults |-> FALSE,
    busFaults |-> FALSE, producer |-> TRUE, history |-> FALSE,
    requests |-> RequestsOver({ <<"a">> }, { "http://u1" }, { None },
                              { "healthy", "unhealthy" }, { None }) ]
NextConc == \E p \in Procs : Step(p)
SpecConc == InitWith(EnvConc) /\ [][NextConc]_vars

\* Sequential use of one service with the event bus absent, or present with
\* producer.send failing at will; Redis and the store answer.
EnvBus ==
  [ procs |-> { "p1" }, cacheFaults |-> FALSE, storeFaults |-> FALSE,
    busFaults |-> TRUE, producer |-> TRUE, history |-> FALSE,
    requests |-> RequestsOver({ <<"a">> }, Urls, MetaInputs, SUPPORTED_STATUSES, RtInputs) ]
InitBus == \E producer \in BOOLEAN : InitWith([ EnvBus EXCEPT !.producer = producer ])
NextBus == \E p \in Procs : Step(p)
SpecBus == InitBus /\ [][NextBus]_vars

\* The monitor started and stopped by two callers at any moment, over a
\* registry holding one service; its endpoint changes its answer at will.
EnvMon ==
  [ procs |-> {}, cacheFaults |-> FALSE, storeFaults |-> FALSE,
    busFaults |-> FALSE, producer |-> TRUE, history |-> FALSE, requests |-> {} ]
NextMon ==
  \/ \E c \in Ctls : start_monitoring(c) \/ stop_monitoring(c) \/ stop_await(c)
                     \/ ctl_return(c)
  \/ \E t \in Tasks : TaskStep(t)
  \/ Flip
SpecMon == InitRegistered(EnvMon, << "a" >>, "http://u1") /\ [][NextMon]_vars

\* The monitor started and stopped by one caller while transactions fail and
\* the endpoint changes its answer, until the environment settles.  The event
\* loop runs every task that can run.
EnvLive ==
  [ procs |-> {}, cacheFaults |-> FALSE, storeFaults |-> TRUE,
    busFaults |-> FALSE, producer |-> TRUE, history |-> FALSE, requests |-> {} ]
NextLive ==
  \/ start_monitoring("c1") \/ stop_monitoring("c1") \/ stop_await("c1")
  \/ ctl_return("c1")
  \/ \E t \in Tasks : TaskStep(t)
  \/ Flip
  \/ Settle
SpecLive ==
  /\ InitRegistered(EnvLive, << "a" >>, "http://u1")
  /\ [][NextLive]_vars
  /\ \A t \in Tasks : WF_vars(TaskStep(t))

\* Sequential use of the flags: one caller creating, updating, deleting and
\* evaluating with every argument, cache entries expiring at any moment.
EnvFlag ==
  [ procs |-> { "p1" }, cacheFaults |-> FALSE, storeFaults |-> FALSE,
    busFaults |-> FALSE, producer |-> TRUE, history |-> FALSE,
    requests |-> FlagRequestsOver(Environments, BOOLEAN, Rollouts, TargetInputs, UserIds) ]
NextFlag == (\E p \in Procs : FlagStep(p)) \/ FlagExpire
SpecFlag == InitWith(EnvFlag) /\ [][NextFlag]_vars

\* Two requests on one flag interleaving at their awaits, no faults; the cache
\* entry expires at any moment.
EnvFlagConc ==
  [ procs |-> { "p1", "p2" }, cacheFaults |-> FALSE, storeFaults |-> FALSE,
    busFaults |-> FALSE, producer |-> TRUE, history |-> TRUE,
    requests |-> FlagRequestsOver({ "production" }, { FALSE }, { 0, 50 }, { None },
                                  { Some("u3") }) ]
NextFlagConc == (\E p \in Procs : FlagStep(p)) \/ FlagExpire
SpecFlagConc == InitWith(EnvFlagConc) /\ [][NextFlagConc]_vars

\* One client sending HTTP requests one at a time, no faults.
EnvHttp ==
  [ procs |-> { "p1" }, cacheFaults |-> FALSE, storeFaults |-> FALSE,
    busFaults |-> FALSE, producer |-> TRUE, history |-> FALSE, requests |-> {} ]
NextHttp == \E p \in Procs : HttpStep(p)
SpecHttp == InitWith(EnvHttp) /\ [][NextHttp]_vars

\* The monitor over two registered services whose endpoints change between a
\* healthy answer and a refused connection, while transactions fail.
EnvCycle ==
  [ procs |-> {}, cacheFaults |-> FALSE, storeFaults |-> TRUE,
    busFaults |-> FALSE, producer |-> TRUE, history |-> FALSE, requests |-> {} ]
NextCycle ==
  \/ start_monitoring("c1") \/ stop_monitoring("c1") \/ stop_await("c1")
  \/ ctl_return("c1")
  \/ \E t \in Tasks : TaskStep(t)
  \/ Flip
SpecCycle ==
  /\ InitMonitored(EnvCycle, World({ AnswerHealthy, AnswerRefused }, FALSE),
                   Names, "http://u1")
  /\ [][NextCycle]_vars

\* The monitor over one service whose endpoint gives one answer, any of those
\* of Answers.
EnvProbe ==
  [ procs |-> {}, cacheFaults |-> FALSE, storeFaults |-> FALSE,
    busFaults |-> FALSE, producer |-> TRUE, history |-> FALSE, requests |-> {} ]
InitProbe ==
  \E a \in Answers :
    InitMonitored(EnvProbe, [ World({ a }, FALSE) EXCEPT !.answer[<< "a" >>] = a ],
                  { << "a" >> }, "http://u1")
NextProbe ==
  \/ start_monitoring("c1") \/ stop_monitoring("c1") \/ stop_await("c1")
  \/ ctl_return("c1")
  \/ \E t \in Tasks : TaskStep(t)
SpecProbe == InitProbe /\ [][NextProbe]_vars

\* The monitor over one service with the clock kept: sleeps end on time and
\* every step of a cycle can take time.
EnvTime ==
  [ procs |-> {}, cacheFaults |-> FALSE, storeFaults |-> FALSE,
    busFaults |-> FALSE, producer |-> TRUE, history |-> FALSE, requests |-> {} ]
NextTime ==
  \/ start_monitoring("c1") \/ stop_monitoring("c1") \/ stop_await("c1")
  \/ ctl_return("c1")
  \/ \E t \in Tasks : TaskStep(t)
  \/ Elapse
SpecTime ==
  /\ InitMonitored(EnvTime, World({ AnswerHealthy }, TRUE), { << "a" >> }, "http://u1")
  /\ [][NextTime]_vars

\* Two requests on one service interleaving at their awaits: get, register
\* under either URL and update_health, no faults, no key expiring.
EnvRace ==
  [ procs |-> { "p1", "p2" }, cacheFaults |-> FALSE, storeFaults |-> FALSE,
    busFaults |-> FALSE, producer |-> TRUE, history |-> FALSE,
    requests |-> { c \in RequestsOver({ <<"a">> }, Urls, { None },
                                      { "healthy" }, { None }) :
                     c.op \in { "get", "register", "update_health" } } ]
NextRace ==
  \E p \in Procs :
    \/ Call(p) \/ Return(p)
    \/ reg_repo(p) \/ reg_instances(p) \/ reg_active(p) \/ reg_info(p) \/ reg_publish(p)
    \/ get_cache(p) \/ get_repo(p) \/ get_set(p)
    \/ uh_repo(p) \/ uh_instances(p) \/ uh_active(p) \/ uh_scan(p) \/ uh_delete(p)
    \/ uh_healthy(p) \/ uh_publish(p)
SpecRace == InitWith(EnvRace) /\ [][NextRace]_vars

\* The monitor over one service whose endpoint answers healthy, with the clock
\* kept and the discovery keys expiring when their TTL has run out.
EnvTtl ==
  [ procs |-> {}, cacheFaults |-> FALSE, storeFaults |-> FALSE,
    busFaults |-> FALSE, producer |-> TRUE, history |-> FALSE, requests |-> {} ]
NextTtl ==
  \/ start_monitoring("c1") \/ stop_monitoring("c1") \/ stop_await("c1")
  \/ ctl_return("c1")
  \/ \E t \in Tasks : TaskStep(t)
  \/ ElapseAsleep
  \/ ExpireDue
SpecTtl ==
  /\ InitMonitored(EnvTtl, World({ AnswerHealthy }, TRUE), { << "a" >> }, "http://u1")
  /\ [][NextTtl]_vars

\* ------------------------------------------------------------ claims
NameOf(p) == call[p].name
HealthyNames == { n \in DOMAIN store : store[n].status = "healthy" }
AtDone(p, op) == pc[p] = "done" /\ call[p].op = op

\* C1: re-registering an existing service_name sets service_url to the new URL
\* and leaves status and last_health_check as they were; the status of a row
\* that stays registered changes only in the commit of an update_health.
C1_ReRegisterKeepsHealth ==
  [][ \A n \in DOMAIN store \cap DOMAIN store' :
        /\ \A p \in Procs :
             pc[p] = "reg_repo" /\ pc'[p] = "reg_instances" /\ NameOf(p) = n
               => /\ store'[n].service_url = call[p].url
                  /\ store'[n].status = store[n].status
                  /\ store'[n].last_health_check = store[n].last_health_check
        /\ store'[n].status # store[n].status
             => \E q \in Procs :
                  pc[q] = "uh_repo" /\ pc'[q] = "uh_instances" /\ NameOf(q) = n ]_vars

\* A healthy service with a health check on record has just been re-registered
\* under another URL than the one the health update before it returned.
C1_Witness ==
  \E p \in Procs :
    /\ pc[p] = "reg_instances"
    /\ obs[p].pre # None
    /\ Val(obs[p].pre).status = "healthy"
    /\ Val(obs[p].pre).last_health_check # None
    /\ Val(obs[p].pre).service_url # call[p].url
    /\ store[NameOf(p)].service_url = call[p].url
    /\ store[NameOf(p)].status = "healthy"
    /\ now > Val(store[NameOf(p)].last_health_check)

\* C2: a register that follows a register with the same arguments returns the
\* same row, leaves the stored row as the first call left it, and leaves every
\* entry of the name that is in the cache with the value the first call wrote.
C2_RegisterIdempotent ==
  \A p \in Procs :
    AtDone(p, "register") /\ last.call = call[p] /\ last.ret.kind = "row"
      => LET n == NameOf(p)
             first == Val(last.ret.val) IN
         /\ ret[p] = last.ret
         /\ n \in DOMAIN store /\ store[n] = first
         /\ n \in DOMAIN info => info[n] = ServiceDict(n, first)
         /\ n \in DOMAIN inst => inst[n] = RegisterInstanceData(n, last.call.url, first)
         /\ n \in DOMAIN active => active[n] = RegisterActiveFlag(first)

\* The second of two identical registers has returned, at a later time than
\* the health check on record, with all three entries of the name cached.
C2_Witness ==
  \E p \in Procs :
    /\ AtDone(p, "register") /\ last.call = call[p] /\ last.ret.kind = "row"
    /\ call[p].meta # None
    /\ store[NameOf(p)].last_health_check = Some(0) /\ now = 1
    /\ NameOf(p) \in DOMAIN info \cap DOMAIN inst \cap DOMAIN active

\* C3: a get(name) that follows a deregister(name) that returned true returns
\* absent: the row is gone, service_info:<name> is gone, and the get wrote
\* nothing to the cache.
C3_GetAfterDeregisterAbsent ==
  \A p \in Procs :
    /\ AtDone(p, "get")
    /\ last.call.op = "deregister" /\ last.call.name = NameOf(p)
    /\ last.ret = [ kind |-> "bool", val |-> Some(TRUE) ]
    => /\ ret[p].kind = "none"
       /\ NameOf(p) \notin DOMAIN store
       /\ NameOf(p) \notin DOMAIN info
       /\ ~obs[p].touched

\* A get has returned right after a successful deregister of its name, while
\* the other service is still registered and cached.
C3_Witness ==
  \E p \in Procs :
    /\ AtDone(p, "get")
    /\ last.call.op = "deregister" /\ last.call.name = NameOf(p)
    /\ last.ret = [ kind |-> "bool", val |-> Some(TRUE) ]
    /\ NameOf(p) = <<"a">>
    /\ <<"a", "b">> \in DOMAIN store \cap DOMAIN inst

\* C4: in sequential use a get(name) returns the service_url and status of the
\* stored row, or absent when there is none, and between calls every
\* service_info entry is the projection of the row stored under its name.
C4_ReadYourWrites ==
  /\ \A p \in Procs :
       AtDone(p, "get")
         => IF NameOf(p) \in DOMAIN store
            THEN /\ ret[p].kind = "dict"
                 /\ Val(ret[p].val).service_url = store[NameOf(p)].service_url
                 /\ Val(ret[p].val).status = store[NameOf(p)].status
            ELSE ret[p].kind = "none"
  /\ Running = {}
       => \A n \in DOMAIN info : n \in DOMAIN store /\ info[n] = ServiceDict(n, store[n])

\* A get served from the cache has returned a healthy record under the second
\* URL, right after a get of the same name.
C4_Witness ==
  \E p \in Procs :
    /\ AtDone(p, "get") /\ ~obs[p].touched /\ obs[p].wasCached
    /\ ret[p].kind = "dict"
    /\ Val(ret[p].val).status = "healthy"
    /\ Val(ret[p].val).service_url = "http://u2"
    /\ last.call = call[p]

\* C6: update_health, deregister and get on a name that was neither stored nor
\* cached when the call started return none, false and none, create no row,
\* write or delete no cache entry and publish nothing.
C6_NotFoundIsNoOp ==
  \A p \in Procs :
    /\ pc[p] = "done"
    /\ call[p].op \in { "update_health", "deregister", "get" }
    /\ obs[p].pre = None /\ ~obs[p].wasCached
    => /\ ret[p] = IF call[p].op = "deregister"
                   THEN [ kind |-> "bool", val |-> Some(FALSE) ]
                   ELSE [ kind |-> "none", val |-> None ]
       /\ NameOf(p) \notin DOMAIN store
       /\ NameOf(p) \notin DOMAIN info
       /\ ~obs[p].touched /\ ~obs[p].published /\ ~obs[p].committed

\* A deregister of an unknown name has returned while the other service is
\* registered, cached and listed as healthy.
C6_Witness ==
  \E p \in Procs :
    /\ AtDone(p, "deregister") /\ obs[p].pre = None /\ ~obs[p].wasCached
    /\ DOMAIN store # {} /\ DOMAIN info # {} /\ healthy # {}

\* C7: in sequential use list_healthy returns exactly the services whose stored
\* status is healthy; right after update_health(name, s) it holds name iff
\* s = healthy, and right after deregister(name) it does not hold name.
C7_ListHealthyExact ==
  \A p \in Procs :
    AtDone(p, "healthy")
      => /\ ret[p].kind = "list"
         /\ DOMAIN Val(ret[p].val) = HealthyNames
         /\ last.call.op = "update_health" /\ last.ret.kind = "dict"
              => (last.call.name \in DOMAIN Val(ret[p].val)
                    <=> last.call.status = "healthy")
         /\ last.call.op = "deregister"
              => last.call.name \notin DOMAIN Val(ret[p].val)

\* list_healthy has returned the other service alone, right after an
\* update_health that took a listed service to unhealthy.
C7_Witness ==
  \E p \in Procs :
    /\ AtDone(p, "healthy")
    /\ last.call.op = "update_health" /\ last.ret.kind = "dict"
    /\ last.call.status = "unhealthy"
    /\ obs[p].touched
    /\ DOMAIN Val(ret[p].val) = Names \ { last.call.name }

\* The row of `n` as an optional value.
RowOf(n) == IF n \in DOMAIN store THEN Some(store[n]) ELSE None

\* C5: once every call has returned and the store holds no row for a name, the
\* cache holds none of service_info:<name>, service:<name>:instances and
\* service:<name>:active, however deregister interleaved with other calls.
C5_DeregisterPurgesAll ==
  Running = {}
    => \A n \in Names \ DOMAIN store :
         n \notin DOMAIN info /\ n \notin DOMAIN inst /\ n \notin DOMAIN active

\* C8: a list_healthy that starts when no mutating call is running, and returns
\* before another one starts, returns exactly the services whose stored status
\* is healthy, whatever list_healthy calls overlapped the updates before it.
C8_NoStaleHealthySet ==
  \A p \in Procs :
    AtDone(p, "healthy") /\ obs[p].fresh
      => ret[p].kind = "list" /\ DOMAIN Val(ret[p].val) = HealthyNames

\* C9: a call during which a Redis command failed, and no transaction did,
\* raises nothing; a get or list_healthy then returns what the store holds.
C9_CacheFailureNeverSurfaces ==
  \A p \in Procs :
    pc[p] = "done" /\ obs[p].cacheError /\ ~obs[p].storeError
      => /\ ret[p].kind # "error"
         /\ call[p].op = "get"
              => ret[p].val = IF NameOf(p) \in DOMAIN store
                              THEN Some(ServiceDict(NameOf(p), store[NameOf(p)]))
                              ELSE None
         /\ call[p].op = "healthy" => ret[p].val = Some(HealthyRows(store))

C11_ErrorMeansNoDurableEffect ==
  \A p \in Procs :
    pc[p] = "done" /\ call[p].op \in Mutating /\ ret[p].kind = "error"
      => RowOf(NameOf(p)) = obs[p].pre

PublishSteps == { "reg_publish", "uh_publish", "dr_publish" }

\* C12: with Redis and the store answering, a mutating call never raises, and
\* once its transaction committed its result, the row, the cache and the index
\* entries of its name are one function of its arguments, the same whether the
\* send succeeded, failed or there is no producer; the publish step is taken
\* once, ends the call and changes neither store nor cache.
C12_PublishBestEffort ==
  /\ [] \A p \in Procs :
         pc[p] = "done" /\ call[p].op \in Mutating
           => LET n == NameOf(p) IN
              /\ ret[p].kind # "error"
              /\ obs[p].committed /\ call[p].op = "register"
                   => /\ ret[p] = [ kind |-> "row", val |-> RowOf(n) ]
                      /\ n \in DOMAIN info \cap DOMAIN inst \cap DOMAIN active
                      /\ info[n] = ServiceDict(n, store[n])
                      /\ inst[n] = RegisterInstanceData(n, call[p].url, store[n])
                      /\ active[n] = "1"
              /\ obs[p].committed /\ call[p].op = "update_health"
                   => /\ n \in DOMAIN store
                      /\ ret[p] = [ kind |-> "dict", val |-> Some(ServiceDict(n, store[n])) ]
                      /\ store[n].status = call[p].status
                      /\ n \notin DOMAIN info /\ healthy = {}
                      /\ inst[n].health_status = call[p].status
                      /\ active[n] = HealthActiveFlag(call[p].status)
              /\ obs[p].committed /\ call[p].op = "deregister"
                   => /\ ret[p] = [ kind |-> "bool", val |-> Some(TRUE) ]
                      /\ n \notin DOMAIN store \cup DOMAIN info \cup DOMAIN inst
                                  \cup DOMAIN active
                      /\ healthy = {}
  /\ [][ \A p \in Procs :
          pc[p] \in PublishSteps /\ pc'[p] # pc[p]
            => pc'[p] = "done" /\ store' = store /\ info' = info /\ inst' = inst
               /\ active' = active /\ healthy' = healthy ]_vars

\* A register has returned its row although the producer is there and the send
\* of its event failed.
C12_Witness ==
  \E p \in Procs :
    /\ AtDone(p, "register") /\ ret[p].kind = "row"
    /\ env.producer /\ ~obs[p].published
    /\ obs[p].pre # None

\* The monitor loop tasks that exist and have not been cancelled.
NotCancelled == { t \in Tasks : Live(t) }

\* C13: at every moment at most one monitor loop task exists that has not been
\* cancelled, however the calls of start_monitoring and stop_monitoring of two
\* callers interleave; a start_monitoring that finds the monitor running creates
\* no task and changes nothing of the monitor or the registry.
C13_StartGuard ==
  /\ [](Cardinality(NotCancelled) <= 1)
  /\ [][ \A c \in Ctls :
          ctl[c].pc = "idle" /\ ctl'[c].pc = "start_done" /\ is_running
            => /\ ctl'[c].task = None
               /\ UNCHANGED << is_running, monitor_task, task, world >>
               /\ UNCHANGED RegistryVars ]_vars

\* start_monitoring has returned without creating a task, the monitor running
\* its second task while the first, cancelled, has still to end and its
\* stop_monitoring to return.
C13_Witness ==
  /\ \E c \in Ctls : ctl[c].pc = "start_done" /\ ctl[c].task = None
  /\ \E c \in Ctls : ctl[c].pc = "stop_await" /\ ctl[c].task = Some("t1")
  /\ task["t1"].cancelled /\ task["t1"].at # "finished"
  /\ Live("t2") /\ monitor_task = Some("t2")

\* C14: when stop_monitoring has returned, the task it cancelled has ended; a
\* task with a cancellation pending takes one more step, which ends it and
\* neither reads nor writes the registry, and a task that has ended takes none;
\* stop_monitoring on a monitor that is not running changes nothing.
C14_AwaitedCancellation ==
  /\ [] \A c \in Ctls :
         ctl[c].pc = "stop_done" /\ ctl[c].task # None
           => task[Val(ctl[c].task)].at = "finished" /\ pc[Val(ctl[c].task)] = "idle"
  /\ [][ /\ \A t \in Tasks :
             task[t].cancelled /\ (task'[t] # task[t] \/ pc'[t] # pc[t])
               => /\ task[t].at # "finished" /\ task'[t].at = "finished"
                  /\ pc'[t] = "idle"
                  /\ UNCHANGED << store, cacheVars >>
         /\ \A t \in Tasks :
             task[t].at = "finished" => task'[t] = task[t] /\ pc'[t] = pc[t]
         /\ \A c \in Ctls :
             ctl[c].pc = "idle" /\ ctl'[c].pc = "stop_done"
               => /\ ~is_running
                  /\ UNCHANGED << is_running, monitor_task, task, world >>
                  /\ UNCHANGED RegistryVars ]_vars

\* stop_monitoring has returned after cancelling the only task there was in the
\* middle of its update_health: the new status is in the store and the index,
\* the service_info entry that the update would have deleted is still there.
C14_Witness ==
  \E c \in Ctls :
    /\ ctl[c].pc = "stop_done" /\ ctl[c].task = Some("t1")
    /\ task["t1"].at = "finished" /\ task["t2"].at = "none"
    /\ store[<< "a" >>].status = "healthy"
    /\ << "a" >> \in DOMAIN inst /\ inst[<< "a" >>].health_status = "healthy"
    /\ << "a" >> \in DOMAIN info /\ info[<< "a" >>].status = "unknown"

\* C15: a monitor task ends only by cancellation, whatever fails in its cycles,
\* and a cycle that logged an error (the registry read failed, or an
\* update_health raised) is followed by another cycle unless the task is
\* cancelled first.
C15_LoopSurvivesFailures ==
  /\ [] \A t \in Tasks : task[t].at = "finished" => task[t].cancelled
  /\ \A t \in Tasks :
       (task[t].at = "sleep" /\ task[t].failed)
         ~> (task[t].at = "get_all" \/ task[t].cancelled)

\* A task starts a cycle after one in which its update_health raised.
C15_Witness ==
  \E t \in Tasks :
    task[t].at = "get_all" /\ task[t].failed /\ task[t].lost /\ ~task[t].cancelled

\* The status check_all_services writes for the verdict of the endpoint of `n`.
VerdictStatus(n) == NewStatus(check_service_health(world.answer[n]).is_healthy)

\* C16: once the endpoints keep their verdicts, transactions no longer fail and
\* nobody but the monitor calls the registry, a running monitor leads to the
\* stored status of every service being the status of its verdict for good,
\* unless the monitor is stopped.
C16_StatusConverges ==
  (world.stable /\ is_running)
    ~> ( [](\A n \in DOMAIN store : store[n].status = VerdictStatus(n))
         \/ ~is_running )

\* After the environment settled, a task whose last update_health was lost to
\* a storage failure has just committed the status of the verdict.
C16_Witness ==
  \E t \in Tasks :
    /\ world.stable /\ Live(t) /\ task[t].lost
    /\ task[t].at = "in_update" /\ pc[t] = "uh_instances"
    /\ store[<< "a" >>].status = VerdictStatus(<< "a" >>)
    /\ store[<< "a" >>].status = "unhealthy"

\* The flag the store holds for the name and environment of the evaluation.
StoredFlag(p) == FlagByName(call[p].name, call[p].environment)
\* The result of an evaluation: enabled and reason.
Result(enabled, reason) ==
  [ kind |-> "result", val |-> Some([ enabled |-> enabled, reason |-> reason ]) ]

\* The rules of the evaluation as the specification lists them; `present` says
\* whether the user_id counts as present.
FirstMatch(flag, name, user_id, present) ==
  IF flag = None THEN Result(FALSE, << "flag_not_found" >>)
  ELSE LET f == Val(flag) IN
       IF ~f.is_enabled /\ f.rollout_percentage = 0
       THEN Result(FALSE, << "globally_disabled" >>)
       ELSE IF present /\ f.target_users # None /\ InList(Val(user_id), Val(f.target_users))
       THEN Result(TRUE, << "user_targeted" >>)
       ELSE IF present /\ f.rollout_percentage > 0
               /\ Bucket(name, Val(user_id)) < f.rollout_percentage
       THEN Result(TRUE, << "rollout_percentage", f.rollout_percentage >>)
       ELSE Result(f.is_enabled, << "globally_enabled" >>)

\* C17, as claimed: evaluate returns the result of the first matching rule for
\* every flag and every user_id, a user_id being present when it is not None.
C17_FirstMatchingRule ==
  \A p \in Procs :
    AtDone(p, "evaluate")
      => ret[p] = FirstMatch(StoredFlag(p), call[p].name, call[p].user_id,
                             call[p].user_id # None)

\* C17, amended: evaluate returns the result of the first matching rule for
\* every flag and every user_id, a user_id being present when it is neither
\* None nor the empty string.
C17_FirstMatchingRuleNonEmpty ==
  \A p \in Procs :
    AtDone(p, "evaluate")
      => ret[p] = FirstMatch(StoredFlag(p), call[p].name, call[p].user_id,
                             call[p].user_id # None /\ call[p].user_id # Some(""))

\* An evaluation served from the cache has enabled a flag that is not enabled
\* for a user who is not targeted, by the rollout bucket.
C17_Witness ==
  \E p \in Procs :
    /\ AtDone(p, "evaluate") /\ ~obs[p].touched
    /\ StoredFlag(p) # None
    /\ ~Val(StoredFlag(p)).is_enabled
    /\ Val(StoredFlag(p)).target_users = Some(<< "u1" >>)
    /\ call[p].user_id = Some("u3")
    /\ ret[p] = Result(TRUE, << "rollout_percentage", 50 >>)

\* The evaluated user is a non-empty user_id on the allowlist of `f`.
Targeted(f, user_id) ==
  /\ user_id # None /\ user_id # Some("")
  /\ f.target_users # None /\ InList(Val(user_id), Val(f.target_users))
\* The evaluated user is a non-empty user_id in the rollout bucket of `f`.
InBucket(f, name, user_id) ==
  /\ user_id # None /\ user_id # Some("")
  /\ Bucket(name, Val(user_id)) < f.rollout_percentage

\* C18, as claimed: for every flag with is_enabled = false, evaluate returns
\* enabled = false, for every user_id, rollout_percentage and target_users.
C18_KillSwitch ==
  \A p \in Procs :
    AtDone(p, "evaluate") /\ StoredFlag(p) # None /\ ~Val(StoredFlag(p)).is_enabled
      => ~Val(ret[p].val).enabled

\* C18, amended: for a flag with is_enabled = false, evaluate returns enabled =
\* false unless rollout_percentage > 0 and the user_id is non-empty and on the
\* allowlist or in the rollout bucket; with rollout_percentage = 0 it returns
\* false for every user_id and every target_users.
C18_KillSwitchAtZeroRollout ==
  \A p \in Procs :
    AtDone(p, "evaluate") /\ StoredFlag(p) # None /\ ~Val(StoredFlag(p)).is_enabled
      => LET f == Val(StoredFlag(p)) IN
         Val(ret[p].val).enabled
           <=> /\ f.rollout_percentage > 0
               /\ \/ Targeted(f, call[p].user_id)
                  \/ InBucket(f, call[p].name, call[p].user_id)

\* A flag with is_enabled = false and rollout_percentage = 0 has evaluated to
\* disabled for a user on its allowlist.
C18_Witness ==
  \E p \in Procs :
    /\ AtDone(p, "evaluate") /\ StoredFlag(p) # None
    /\ ~Val(StoredFlag(p)).is_enabled /\ Val(StoredFlag(p)).rollout_percentage = 0
    /\ Targeted(Val(StoredFlag(p)), call[p].user_id)
    /\ ret[p] = Result(FALSE, << "globally_disabled" >>)

\* C19, as claimed: for every existing flag, every user_id contained in
\* target_users evaluates to enabled = true.
C19_Allowlist ==
  \A p \in Procs :
    /\ AtDone(p, "evaluate") /\ StoredFlag(p) # None
    /\ call[p].user_id # None /\ Val(StoredFlag(p)).target_users # None
    /\ InList(Val(call[p].user_id), Val(Val(StoredFlag(p)).target_users))
    => Val(ret[p].val).enabled

\* C19, amended: for every existing flag that is enabled or has a
\* rollout_percentage above 0, every non-empty user_id contained in
\* target_users evaluates to (true, user_targeted); with is_enabled = false and
\* rollout_percentage = 0 it evaluates to false.
C19_AllowlistUnlessDisabled ==
  \A p \in Procs :
    AtDone(p, "evaluate") /\ StoredFlag(p) # None
    /\ Targeted(Val(StoredFlag(p)), call[p].user_id)
    => LET f == Val(StoredFlag(p)) IN
       IF f.is_enabled \/ f.rollout_percentage > 0
       THEN ret[p] = Result(TRUE, << "user_targeted" >>)
       ELSE ~Val(ret[p].val).enabled

\* A user on the allowlist and outside the rollout bucket has been enabled on
\* a flag with is_enabled = false.
C19_Witness ==
  \E p \in Procs :
    /\ AtDone(p, "evaluate") /\ StoredFlag(p) # None
    /\ Targeted(Val(StoredFlag(p)), call[p].user_id)
    /\ ~Val(StoredFlag(p)).is_enabled /\ Val(StoredFlag(p)).rollout_percentage = 50
    /\ ~InBucket(Val(StoredFlag(p)), call[p].name, call[p].user_id)
    /\ ret[p] = Result(TRUE, << "user_targeted" >>)

\* C20: an evaluation that ran clear of every mutating call returns the
\* (enabled, reason) of the evaluation that returned last before it, when that
\* one ran clear of every mutating call too, had the same flag name and user_id
\* and found the flag with the fields it has now; no call returned in between,
\* so the flag is unchanged from the start of the first to the end of the second.
C20_SameFlagSameDecision ==
  \A p \in Procs :
    /\ AtDone(p, "evaluate") /\ obs[p].fresh
    /\ last.call.op = "evaluate" /\ last.fresh
    /\ last.call.name = call[p].name /\ last.call.user_id = call[p].user_id
    /\ last.flag # None /\ StoredFlag(p) # None
    /\ [ Val(last.flag) EXCEPT !.environment = "" ]
         = [ Val(StoredFlag(p)) EXCEPT !.environment = "" ]
    => ret[p] = last.ret

\* The steps of an evaluation: the awaits of get_feature_flag.
EvaluateSteps == { "ev_cache", "ev_repo", "ev_set" }

GetHealthy(p) ==
  /\ call[p].method = "GET"
  /\ call[p].route \in { << r.prefix, << << "healthy" >> >> >> : r \in Routers }

\* C22: every answered GET of /api/v1/registry/healthy or /api/v1/services/healthy
\* was dispatched to the healthy-services listing and answers 200 with the
\* list, whatever services are registered.
C22_HealthyRouteDispatched ==
  \A p \in Procs :
    pc[p] = "done" /\ GetHealthy(p)
      => /\ call[p].op = "healthy"
         /\ StatusCode(p) = 200
         /\ ret[p].kind = "list"

\* C23: within one register, update_health or deregister call, the step that
\* commits comes before every cache or discovery-index write or delete of the
\* call, every such write or delete is made after the commit and before the
\* publish, and the publish is made only of a committed change and is the last
\* step of the call.
C23_WriteThroughOrdering ==
  [][ \A p \in Procs :
        call[p].op \in Mutating /\ pc'[p] # pc[p] /\ pc[p] \notin { "idle", "done" }
        => /\ (store' # store \/ (obs'[p].committed /\ ~obs[p].committed))
                => ~obs[p].touched /\ ~obs[p].published /\ pc[p] \notin PublishSteps
           /\ (cacheVars' # cacheVars \/ (obs'[p].touched /\ ~obs[p].touched))
                => obs[p].committed /\ ~obs[p].published /\ pc[p] \notin PublishSteps
           /\ pc[p] \in PublishSteps
                => /\ obs[p].committed
                   /\ store' = store /\ cacheVars' = cacheVars
                   /\ pc'[p] = "done" ]_vars

\* An update_health has committed, written the cache and the index, and
\* published, in this order.
C23_Witness ==
  \E p \in Procs :
    /\ AtDone(p, "update_health")
    /\ obs[p].committed /\ obs[p].touched /\ obs[p].published

\* The gating rule of the monitor on a service of the snapshot.
MustUpdate(current_status, new_status) ==
  current_status # new_status \/ current_status = "unknown"
\* The task takes a step of its cycle (and is not being cancelled).
CycleStep(t) == task'[t] # task[t] /\ ~task'[t].cancelled /\ ~task[t].cancelled

\* C24: in every cycle the step that takes up the result of a service calls
\* update_health(name, new status) iff the new status differs from the status
\* of the snapshot or that one is unknown; a result is taken up once; and no
\* step of the task writes the store, the cache or the index or publishes
\* except within such a call, so a cycle in which no service meets the rule
\* writes and publishes nothing.
C24_UpdateGating ==
  [][ \A t \in Tasks :
        /\ (CycleStep(t) /\ task[t].at = "update")
             => \E n \in DOMAIN task[t].results :
                  LET r == task[t].results[n] IN
                  /\ DOMAIN task'[t].results = DOMAIN task[t].results \ { n }
                  /\ r.current_status = task[t].services[n]
                  /\ MustUpdate(r.current_status, NewStatus(r.is_healthy))
                       <=> /\ task'[t].at = "in_update"
                           /\ call'[t].op = "update_health" /\ call'[t].name = n
                           /\ call'[t].status = NewStatus(r.is_healthy)
                  /\ ~MustUpdate(r.current_status, NewStatus(r.is_healthy))
                       => pc'[t] = "idle" /\ call'[t] = NoCall
        /\ (CycleStep(t) /\ task[t].at = "in_update")
             => task'[t].results = task[t].results
        /\ (pc'[t] # pc[t] /\ (store' # store \/ cacheVars' # cacheVars
                                \/ pc[t] \in PublishSteps))
             => /\ task[t].at = "in_update" /\ call[t].op = "update_health"
                /\ MustUpdate(task[t].services[call[t].name], call[t].status) ]_vars

\* A cycle is about to take up the results of two services, one that meets the
\* gating rule and one whose verdict is its healthy snapshot status.
C24_Witness ==
  \E t \in Tasks :
    /\ Live(t) /\ task[t].at = "update"
    /\ \E n, m \in DOMAIN task[t].results :
         /\ MustUpdate(task[t].results[n].current_status,
                       NewStatus(task[t].results[n].is_healthy))
         /\ task[t].results[m].current_status = "healthy"
         /\ task[t].results[m].is_healthy

\* C25: a probe that fails gives (unhealthy, response_time 0) for its service
\* and leaves the results of the others alone; the update phase begins only
\* with a result for every service of the snapshot; an update_health that
\* raised leaves the remaining results to be taken up; and the cycle ends
\* only when none is left.
C25_FailureIsLocal ==
  [][ \A t \in Tasks :
        /\ (CycleStep(t) /\ task[t].at = "probe")
             => \E n \in DOMAIN task[t].services \ DOMAIN task[t].results :
                  /\ DOMAIN task'[t].results = DOMAIN task[t].results \cup { n }
                  /\ \A m \in DOMAIN task[t].results :
                       task'[t].results[m] = task[t].results[m]
                  /\ world.answer[n].kind # "response"
                       => /\ ~task'[t].results[n].is_healthy
                          /\ task'[t].results[n].response_time = 0
                  /\ task'[t].at = "update"
                       <=> DOMAIN task'[t].results = DOMAIN task[t].services
                  /\ task'[t].at \in { "probe", "update" }
        /\ (CycleStep(t) /\ task[t].at = "in_update" /\ pc[t] = "done")
             => /\ task'[t].results = task[t].results
                /\ task'[t].at = IF DOMAIN task[t].results = {} THEN "sleep" ELSE "update"
        /\ (CycleStep(t) /\ task[t].at \in { "update", "in_update" }
              /\ task'[t].at = "sleep")
             => DOMAIN task'[t].results = {} ]_vars

\* After the update_health of one service raised, the task has committed the
\* update of the other, whose probe was refused.
C25_Witness ==
  \E t \in Tasks :
    /\ Live(t) /\ task[t].lost
    /\ task[t].at = "in_update" /\ pc[t] = "uh_instances"
    /\ call[t].name = << "a", "b" >> /\ call[t].status = "unhealthy" /\ call[t].rt = Some(0)
    /\ store[<< "a" >>].status = "unknown"
    /\ store[<< "a", "b" >>].status = "unhealthy"

\* The states of a task in which a cycle (check_all_services) is under way.
ProbingAll == { "get_all", "probe", "update", "in_update" }

\* C26: a task goes from not started to the startup delay; from the startup
\* delay, once it has elapsed in full, to its first cycle (or out of the loop
\* when is_running is cleared); from a cycle to the inter-cycle wait of
\* interval_seconds; from the wait, once it has elapsed, to the next cycle (or
\* out of the loop); it never returns to the startup delay; and a task that is
\* cancelled in the startup delay, in a cycle or in the wait stops there.
C26_MonitorStateMachine ==
  [][ \A t \in Tasks :
        task'[t].at # task[t].at
        => LET from == task[t].at
               to == task'[t].at IN
           IF task[t].cancelled THEN to = "finished"
           ELSE CASE from = "none" ->
                       to = "startup_delay" /\ task'[t].wake = now + StartupDelay
                  [] from = "startup_delay" ->
                       /\ now >= task[t].wake
                       /\ to = IF is_running THEN "get_all" ELSE "finished"
                  [] from \in ProbingAll ->
                       /\ to \in ProbingAll \cup { "sleep" }
                       /\ to = "sleep" => task'[t].wake = now + IntervalSeconds
                  [] from = "sleep" ->
                       /\ now >= task[t].wake
                       /\ to = IF is_running THEN "get_all" ELSE "finished"
                  [] OTHER -> FALSE ]_vars

\* One task was stopped, and the next, in its second cycle's wait or later, has
\* been cancelled in the inter-cycle wait.
C26_Witness ==
  /\ task["t1"].at = "finished" /\ task["t1"].cancelled
  /\ task["t2"].at = "sleep" /\ task["t2"].cancelled /\ task["t2"].started # None

\* A task is cancelled in the startup delay.
StoppedInStartupDelay == \E t \in Tasks : task[t].cancelled /\ task[t].at = "startup_delay"
\* A task is cancelled in a cycle.
StoppedInCycle == \E t \in Tasks : task[t].cancelled /\ task[t].at \in ProbingAll

\* C27: a cycle that is not the first of its task starts interval_seconds after
\* the start of the cycle before it, however long that one lasted.
C27_StartToStartSpacing ==
  \A t \in Tasks :
    task[t].prev # None /\ task[t].started # None
      => Val(task[t].started) = Val(task[t].prev) + IntervalSeconds

\* C28: at no moment are two tasks of the monitor in a cycle.
C28_CyclesNeverOverlap ==
  Cardinality({ t \in Tasks : Live(t) /\ task[t].at \in ProbingAll }) <= 1

\* After the first task has ended, the second is in a cycle that follows a
\* cycle which wrote the status.
C28_Witness ==
  /\ task["t1"].at = "finished"
  /\ Live("t2") /\ task["t2"].at = "probe"
  /\ task["t2"].services = (<< "a" >> :> "unhealthy")

\* The status values that decide a verdict against the service.
BadStatuses == { "unhealthy", "error", "down" }
\* A member of a body is the string `v`.
IsString(member, v) == member # None /\ Val(member).type = "str" /\ Val(member).s = v
\* The body carries a detail object.
HasDetailObject(body) == body.detail # None /\ Val(body.detail).type = "obj"
\* The status nested one level under detail.
NestedStatus(body) == IF HasDetailObject(body) THEN Val(body.detail).status ELSE None
\* A probe result of task `t` for service `n` that came of a received response.
Probed(t, n) ==
  /\ Live(t) /\ task[t].at = "update" /\ n \in DOMAIN task[t].results
  /\ world.answer[n].kind = "response"

\* C29, as claimed: a response that is a JSON object whose top-level status
\* is "healthy" is healthy for every HTTP code and whatever else the body
\* carries; one whose status, at top level or under detail, is one of
\* unhealthy/error/down is unhealthy even with HTTP 200.
C29_StatusFieldWins ==
  \A t \in Tasks, n \in Names :
    Probed(t, n) /\ world.answer[n].body.json = "object"
    => LET body == world.answer[n].body IN
       /\ IsString(body.status, "healthy") => task[t].results[n].is_healthy
       /\ (\E v \in BadStatuses :
             IsString(body.status, v) \/ IsString(NestedStatus(body), v))
            => ~task[t].results[n].is_healthy

\* C29, amended: a response that is a JSON object is classified by one status
\* field, the one under detail when the body carries a detail object and the
\* top-level one otherwise: "healthy" gives healthy for every HTTP code, one
\* of unhealthy/error/down gives unhealthy even with HTTP 200.
C29_DecidingStatusFieldWins ==
  \A t \in Tasks, n \in Names :
    Probed(t, n) /\ world.answer[n].body.json = "object"
    => LET body == world.answer[n].body
           deciding == IF HasDetailObject(body) THEN NestedStatus(body) ELSE body.status IN
       /\ IsString(deciding, "healthy") => task[t].results[n].is_healthy
       /\ (\E v \in BadStatuses : IsString(deciding, v))
            => ~task[t].results[n].is_healthy

\* A probe answered 503 with {"status": "healthy"} has been classified healthy.
C29_Witness ==
  \E t \in Tasks :
    /\ Probed(t, << "a" >>)
    /\ world.answer[<< "a" >>] =
         Received(503, [ json |-> "object", status |-> Some(JStr("healthy")),
                         detail |-> None ])
    /\ task[t].results[<< "a" >>].is_healthy

\* A member of a body is a string that reads, in any case, as one of the four
\* status values.
Decisive(member) ==
  /\ member # None /\ Val(member).type = "str"
  /\ Lower(Val(member).s) \in { "healthy" } \cup BadStatuses

\* C30: a received response whose body is not JSON, is JSON but no object, or is
\* an object with no status among healthy/unhealthy/error/down at top level or
\* under detail, is healthy iff the HTTP code is 200.
C30_FallbackToHttpCode ==
  \A t \in Tasks, n \in Names :
    Probed(t, n)
    => LET body == world.answer[n].body IN
       (\/ body.json \in { "invalid", "array" }
        \/ /\ body.json = "object"
           /\ ~Decisive(body.status) /\ ~Decisive(NestedStatus(body)))
       => (task[t].results[n].is_healthy <=> world.answer[n].code = 200)

\* C31: between calls, whenever service:<name>:active is in the cache its value
\* is "1" exactly when the stored status of the name is healthy, whatever
\* sequence of register, update_health and deregister calls came before.
C31_ActiveFlagIsLiveness ==
  Running = {}
    => \A n \in DOMAIN active : active[n] = "1" <=> n \in HealthyNames

\* The keys of optional metadata, and metadata `new` holding every key of `old`
\* other than `k` with its value and no further key.
MetaKeys(meta) == IF IsNone(meta) THEN {} ELSE DOMAIN Val(meta)
SameButFor(old, new, k) ==
  /\ MetaKeys(new) \ { k } = MetaKeys(old) \ { k }
  /\ \A j \in MetaKeys(old) \ { k } : Val(new)[j] = Val(old)[j]

\* C32: the commit of update_health(name, s, rt) on a registered name sets
\* status to s and last_health_check to a value, leaves service_url as it was,
\* and leaves metadata as it was when rt is absent; when rt is present the
\* metadata written holds avg_response_time = rt and every other key as before.
C32_UpdatesOnlyHealthFields ==
  [][ \A p \in Procs :
        pc[p] = "uh_repo" /\ pc'[p] = "uh_instances"
        => LET n == NameOf(p)
               old == store[n]
               new == store'[n] IN
           /\ new.status = call[p].status
           /\ new.last_health_check # None
           /\ new.service_url = old.service_url
           /\ IsNone(call[p].rt) => new.metadata = old.metadata
           /\ ~IsNone(call[p].rt)
                => /\ "avg_response_time" \in MetaKeys(new.metadata)
                   /\ Val(new.metadata).avg_response_time = Val(call[p].rt)
                   /\ SameButFor(old.metadata, new.metadata, "avg_response_time") ]_vars

\* C33: the commit of a register of an existing name with metadata M over
\* stored metadata S leaves S overridden by M: every key of M with the value of
\* M, every other key of S with the value it had, and no key removed.
C33_MetadataMergesOnUpdate ==
  [][ \A p \in Procs :
        /\ pc[p] = "reg_repo" /\ pc'[p] = "reg_instances"
        /\ NameOf(p) \in DOMAIN store
        => LET S == store[NameOf(p)].metadata
               M == call[p].meta
               new == store'[NameOf(p)].metadata IN
           /\ MetaKeys(new) = MetaKeys(S) \cup MetaKeys(M)
           /\ \A k \in MetaKeys(new) :
                Val(new)[k] = IF k \in MetaKeys(M) THEN Val(M)[k] ELSE Val(S)[k] ]_vars

\* C34: a get(name) that starts after every get, register and update_health
\* before it has returned, and returns before another of them starts, returns
\* the status and service_url of the stored row, or absent when there is none,
\* however the calls before it interleaved.
C34_NextReadRepairs ==
  \A p \in Procs :
    AtDone(p, "get") /\ obs[p].quiet /\ obs[p].fresh
      => IF NameOf(p) \in DOMAIN store
         THEN /\ ret[p].kind = "dict"
              /\ Val(ret[p].val).service_url = store[NameOf(p)].service_url
              /\ Val(ret[p].val).status = store[NameOf(p)].status
         ELSE ret[p].kind = "none"

\* C35: once two update_health calls on one registered name have both
\* returned, service:<name>:active is "1" iff the stored status is healthy, and
\* the health_status of service:<name>:instances is the stored status, however
\* the two calls interleaved.
C35_OverlappingUpdatesConsistent ==
  \A p, q \in Procs :
    /\ p # q /\ NameOf(p) = NameOf(q)
    /\ AtDone(p, "update_health") /\ ret[p].kind = "dict"
    /\ AtDone(q, "update_health") /\ ret[q].kind = "dict"
    => LET n == NameOf(p) IN
       /\ n \in DOMAIN store \cap DOMAIN active \cap DOMAIN inst
       /\ active[n] = "1" <=> store[n].status = "healthy"
       /\ inst[n].health_status = store[n].status

\* C36: while a service is registered with status healthy, its endpoint answers
\* healthy and the monitor started at time 0 is still running,
\* service:<name>:active and service:<name>:instances are in the cache.
C36_LiveEntriesStay ==
  \A n \in DOMAIN store :
    /\ store[n].status = "healthy"
    /\ world.answer[n] = AnswerHealthy
    /\ is_running /\ Live("t1")
    => n \in DOMAIN active /\ n \in DOMAIN inst

\* C37: no step of update_health(name) or deregister(name) removes or changes
\* the service_info entry of another service name, a name that `name` is a
\* proper prefix of included.
C37_InvalidationScoped ==
  [][ \A p \in Procs :
        call[p].op \in { "update_health", "deregister" } /\ pc'[p] # pc[p]
        => \A m \in DOMAIN info \ { NameOf(p) } :
             m \in DOMAIN info' /\ info'[m] = info[m] ]_vars

\* C38: a list_healthy that follows a register(name, url') that returned, for a
\* service whose stored status is healthy, returns that service with
\* service_url = url', whatever URL it was registered under before.
C38_ReRegistrationVisible ==
  \A p \in Procs :
    /\ AtDone(p, "healthy")
    /\ last.call.op = "register" /\ last.ret.kind = "row"
    /\ Val(last.ret.val).status = "healthy"
    => /\ ret[p].kind = "list"
       /\ last.call.name \in DOMAIN Val(ret[p].val)
       /\ Val(ret[p].val)[last.call.name].service_url = last.call.url

\* The flag `f` with its rollout_percentage set to `r`.
RaisedTo(f, r) == [ f EXCEPT !.rollout_percentage = r ]
\* An evaluation that returned enabled = true returns it at every higher
\* rollout_percentage of the same flag, for the same user_id.
StaysEnabled(p) ==
  LET f == Val(StoredFlag(p)) IN
  Val(ret[p].val).enabled
    => \A r \in Rollouts :
         r >= f.rollout_percentage
           => Evaluate(Some(RaisedTo(f, r)), call[p].name, call[p].user_id).enabled

\* C39, as claimed: raising rollout_percentage never turns enabled = true into
\* false, and at rollout_percentage 100 every evaluation with a user_id that is
\* not None returns enabled = true.
C39_RolloutMonotone ==
  \A p \in Procs :
    AtDone(p, "evaluate") /\ StoredFlag(p) # None
      => /\ StaysEnabled(p)
         /\ Val(StoredFlag(p)).rollout_percentage = 100 /\ call[p].user_id # None
              => Val(ret[p].val).enabled

\* C39, amended: raising rollout_percentage never turns enabled = true into
\* false, and at rollout_percentage 100 every evaluation with a user_id that is
\* neither None nor the empty string returns enabled = true.
C39_RolloutMonotoneNonEmpty ==
  \A p \in Procs :
    AtDone(p, "evaluate") /\ StoredFlag(p) # None
      => /\ StaysEnabled(p)
         /\ Val(StoredFlag(p)).rollout_percentage = 100 /\ TruthyStr(call[p].user_id)
              => Val(ret[p].val).enabled

\* A user outside every smaller rollout and on no allowlist has been enabled,
\* at rollout_percentage 100, on a flag with is_enabled = false.
C39_Witness ==
  \E p \in Procs :
    /\ AtDone(p, "evaluate") /\ StoredFlag(p) # None
    /\ ~Val(StoredFlag(p)).is_enabled
    /\ Val(StoredFlag(p)).target_users = None
    /\ Val(StoredFlag(p)).rollout_percentage = 100
    /\ call[p].user_id = Some("u1")
    /\ ret[p] = Result(TRUE, << "rollout_percentage", 100 >>)
====
